---- MODULE Spec2Model ----
(***************************************************************************)
(* Milo 1.0.3: the trajectory loop of main.py, the Gaussian log parser of  *)
(* electronic_structure_program_handler.py and the Verlet / Velocity       *)
(* Verlet integrators of force_propagation_handler.py, over the unit       *)
(* containers of containers.py.                                            *)
(*                                                                         *)
(* Numbers.  Every quantity is an integer count of a quantum of its        *)
(* canonical unit.  With q_t the quantum of time (s) and q_F the quantum   *)
(* of force (N), the quanta of acceleration, velocity and position are     *)
(* q_a = q_F / AMU_TO_KG (m/s^2), q_v = q_a*q_t (m/s) and                  *)
(* q_x = q_a*q_t^2*METER_TO_ANGSTROM (angstrom), so that                   *)
(* Accelerations.from_forces, Velocities.from_acceleration,                *)
(* Positions.from_velocity and Positions.from_acceleration are exact on    *)
(* the counts: the arithmetic below is the exact arithmetic of the code    *)
(* on inputs that are whole numbers of quanta.  A multiplication by 0.5 is *)
(* an exact halving: the inputs are chosen so that every halved count is   *)
(* even.  The Hartree and Hartree/Bohr values read from a log are scaled   *)
(* to the canonical counts by HARTREE_TO_JOULE, HARTREE_PER_BOHR_TO_NEWTON.  *)
(***************************************************************************)
EXTENDS Integers, Sequences, FiniteSets, TLC

(* ------------------------------ bounds --------------------------------- *)
\* longest ESP log body (lines before the optional termination line)
MaxBody == 4
\* largest current_step / max_steps read from the input file
MaxStep == 2
\* most run_next_step calls made directly on one program state
MaxCalls == 3
\* most rows of a container handed to the container operations directly
MaxRows == 2
\* largest seed of the random number generator
MaxSeed == 2
\* calls of _calculate_* and changes of their program state in one scenario
MaxOps == 4
\* lines of a template file of setup_ensemble
MaxLines == 4
\* values one random generator returns from one stream
MaxDraws == 3
\* sections of an input file, and calls of parse_input in one process
MaxSections == 4
MaxParses == 3
\* most samples the energy-boost loop is followed through
MaxAttempts == 4

(* --------------------------- program constants ------------------------- *)
\* sc.HARTREE_TO_JOULE and sc.HARTREE_PER_BOHR_TO_NEWTON, in quanta of the
\* canonical unit per unit of the log; JOULE_TO_HARTREE is 1 / HARTREE_TO_JOULE
HARTREE_TO_JOULE == 2
HARTREE_PER_BOHR_TO_NEWTON == 3
\* len(cls._acceleration_cache) > 1000, len(cls._velocity_cache) > 1000
CacheLimit == 1000

\* an Optional[int] is None or holds one int
None == <<>>
\* no run of the sampler
NoRun == [pc |-> "none"]
Some(n) == <<n>>

(* ------------------------------ triples -------------------------------- *)
Min(a, b) == IF a <= b THEN a ELSE b
Max(a, b) == IF a >= b THEN a ELSE b

VAdd(a, b) == <<a[1] + b[1], a[2] + b[2], a[3] + b[3]>>
VSub(a, b) == <<a[1] - b[1], a[2] - b[2], a[3] - b[3]>>
VMul(a, k) == <<a[1] * k, a[2] * k, a[3] * k>>
\* i * 0.5 on a component that is an even count
VHalf(a) == <<a[1] \div 2, a[2] \div 2, a[3] \div 2>>
\* i / mass on a component that is a multiple of mass
VDiv(a, m) == <<a[1] \div m, a[2] \div m, a[3] \div m>>

\* the last and the last-but-one entry of a Python list: l[-1], l[-2]
Last(l) == l[Len(l)]
Last2(l) == l[Len(l) - 1]

(* ---------------------------- containers.py ---------------------------- *)
\* the operators pair the rows with zip(a, b), which stops at the shorter operand
Positions_add(a, b) == [i \in 1..Min(Len(a), Len(b)) |-> VAdd(a[i], b[i])]
Positions_sub(a, b) == [i \in 1..Min(Len(a), Len(b)) |-> VSub(a[i], b[i])]
Positions_mul(a, k) == [i \in 1..Len(a) |-> VMul(a[i], k)]
Positions_half(a) == [i \in 1..Len(a) |-> VHalf(a[i])]
Velocities_add(a, b) == [i \in 1..Min(Len(a), Len(b)) |-> VAdd(a[i], b[i])]
Velocities_half(a) == [i \in 1..Len(a) |-> VHalf(a[i])]
Accelerations_add(a, b) == [i \in 1..Min(Len(a), Len(b)) |-> VAdd(a[i], b[i])]

\* isinstance(change_in_time, Time)
IsTime(t) == t.kind \in {"Time", "OrderedTime"}
as_second(t) == t.time

Positions_from_velocity(v, t) == [i \in 1..Len(v) |-> VMul(v[i], as_second(t))]
Positions_from_acceleration(a, t) ==
    [i \in 1..Len(a) |-> VMul(a[i], as_second(t) * as_second(t))]
Velocities_from_acceleration(a, t) == [i \in 1..Len(a) |-> VMul(a[i], as_second(t))]
\* zip(atom_masses_kg, forces.as_newton()): a = F / m per atom
Accelerations_from_forces(f, atoms) ==
    [i \in 1..Min(Len(atoms), Len(f)) |-> VDiv(f[i], atoms[i])]

\* Energies.append(value, HARTREE) and Energies.as_hartree(index)
Energies_append_hartree(e, value) == Append(e, value * HARTREE_TO_JOULE)
Energies_as_hartree(e, index) == e[index + 1] \div HARTREE_TO_JOULE
\* Forces.append(x, y, z, HARTREE_PER_BOHR)
Forces_append_hartree_per_bohr(f, xyz) == Append(f, VMul(xyz, HARTREE_PER_BOHR_TO_NEWTON))

(* ------------------ electronic_structure_program_handler.py ------------ *)
\* The lines of a Gaussian log, by what parse_forces looks for in them:
\*   nt       contains "Normal termination"
\*   scf      contains "SCF Done", its 5th token the float e
\*   scf_bad  contains "SCF Done" with fewer than 5 tokens
\*   hdr      contains "Forces (Hartrees/Bohr)"
\*   row      a numbered force line, tokens 3..5 the floats f
\*   end      contains "Cartesian Forces"
NoVec == <<0, 0, 0>>
Line(t, e, f) == [t |-> t, e |-> e, f |-> f]
NT == Line("nt", 0, NoVec)
ScfEnergies == {-76, -1}
RowForces == {<<4, 0, -4>>}
BodyLines ==
    {Line("scf", e, NoVec) : e \in ScfEnergies}
        \cup {Line("row", 0, f) : f \in RowForces}
        \cup {Line("scf_bad", 0, NoVec), Line("hdr", 0, NoVec), Line("end", 0, NoVec)}
LogBodies == UNION {[1..n -> BodyLines] : n \in 0..MaxBody}
\* the log file the ESP leaves: any body, with or without a termination line
Logs == LogBodies \cup {Append(b, NT) : b \in LogBodies} \cup {<<NT>> \o b : b \in LogBodies}

Result(outcome, energies, forces) ==
    [outcome |-> outcome, energies |-> energies, forces |-> forces]

\* any("Normal termination" in line for line in f)
is_log_good(log) == \E i \in 1..Len(log) : log[i].t = "nt"

\* program_state.energies.append(energy), once per "SCF Done" line met: the
\* n entries are one Energies object, read here when the call is over
energies_appended(energy, n) == [k \in 1..n |-> energy]

\* for force_line in log_contents[i + 1:]
RECURSIVE force_block(_, _, _)
force_block(log, j, forces) ==
    IF j > Len(log) THEN [found |-> FALSE, forces |-> forces]
    ELSE IF log[j].t = "end" THEN [found |-> TRUE, forces |-> forces]
    ELSE IF log[j].t = "row"
        THEN force_block(log, j + 1, Forces_append_hartree_per_bohr(forces, log[j].f))
    ELSE force_block(log, j + 1, forces)

\* for i, line in enumerate(log_contents)
RECURSIVE parse_lines(_, _, _, _, _)
parse_lines(log, i, forces, energy, n) ==
    IF i > Len(log) THEN Result("ok", energies_appended(energy, n), <<>>)
    ELSE IF log[i].t = "scf_bad"
        THEN Result("IndexError", energies_appended(energy, n), <<>>)
    ELSE IF log[i].t = "scf"
        THEN parse_lines(log, i + 1, forces, Energies_append_hartree(energy, log[i].e), n + 1)
    ELSE IF log[i].t = "hdr"
        THEN LET b == force_block(log, i + 1, forces)
             IN  IF b.found THEN Result("ok", energies_appended(energy, n), <<b.forces>>)
                 ELSE parse_lines(log, i + 1, b.forces, energy, n)
    ELSE parse_lines(log, i + 1, forces, energy, n)

\* parse_forces without the is_log_good test
parse_forces_unchecked(log) == parse_lines(log, 1, <<>>, <<>>, 0)
\* GaussianHandler.parse_forces: what the call appends to state.energies and
\* state.forces, and how it ends
parse_forces(log) ==
    IF ~is_log_good(log)
        THEN Result("ElectronicStructureProgramError", <<>>, <<>>)
    ELSE parse_lines(log, 1, <<>>, <<>>, 0)

\* print_state_info: program_state.energies[-1].as_hartree(0)
scf_energy(energies) == Energies_as_hartree(Last(energies), 0)

(* ----------------------- force_propagation_handler.py ------------------ *)
\* A program state s, as the handlers see it: [id, atoms, step_size,
\* structures, velocities, forces, accelerations] and the two class-level
\* caches.  A call ends "ok" or with the name of the exception it raises;
\* what it changed before raising stays changed.
Ended(outcome, s) == [outcome |-> outcome, s |-> s]

\* _validate_program_state without its step_size test
validate_without_step_size(s) ==
    IF s.forces = <<>> THEN "ValueError"
    ELSE IF s.atoms = <<>> THEN "ValueError"
    ELSE "ok"
\* ForcePropagationHandler._validate_program_state.  step_size <= 0 is
\* evaluated by Python: containers.Time defines no ordering, so the
\* comparison of a Time with 0 raises TypeError.
validate_program_state(s) ==
    IF s.forces = <<>> THEN "ValueError"
    ELSE IF s.atoms = <<>> THEN "ValueError"
    ELSE IF s.step_size.kind = "Time" THEN "TypeError"
    ELSE IF s.step_size.time <= 0 THEN "ValueError"
    ELSE "ok"

\* the cache update of both _calculate_* methods, with its cleanup
cache_store(cache, key, value) ==
    LET c == (key :> value) @@ cache
    IN  IF Cardinality(DOMAIN c) > CacheLimit THEN <<>> ELSE c

\* cache_key = (id(program_state), len(program_state.forces))
acceleration_cache_key(s) == <<s.id, Len(s.forces)>>
\* cache_key = (id(program_state), len(program_state.accelerations))
velocity_cache_key(s) == <<s.id, Len(s.accelerations)>>

\* _calculate_acceleration storing the acceleration as the only entry
calculate_acceleration_in_place(s) ==
    IF s.forces = <<>> \/ s.atoms = <<>> THEN Ended("IndexError", s)
    ELSE Ended("ok", [s EXCEPT !.accelerations =
                        <<Accelerations_from_forces(Last(s.forces), s.atoms)>>])
\* ForcePropagationHandler._calculate_acceleration.  The cache holds
\* acceleration.to_numpy() and a hit is read back with from_numpy: both keep
\* the stored m/s^2 values.
\* _calculate_acceleration with no cache: from_forces on every call
calculate_acceleration_uncached(s) ==
    IF s.forces = <<>> \/ s.atoms = <<>> THEN Ended("IndexError", s)
    ELSE Ended("ok", [s EXCEPT !.accelerations =
                                   Append(@, Accelerations_from_forces(Last(s.forces), s.atoms)),
                               !.calls.from_forces = @ + 1])
calculate_acceleration(s) ==
    LET key == acceleration_cache_key(s)
    IN  IF key \in DOMAIN s.acceleration_cache
            THEN Ended("ok", [s EXCEPT !.accelerations = Append(@, s.acceleration_cache[key])])
        ELSE IF s.forces = <<>> \/ s.atoms = <<>> THEN Ended("IndexError", s)
        ELSE LET a == Accelerations_from_forces(Last(s.forces), s.atoms)
             IN  Ended("ok", [s EXCEPT !.acceleration_cache = cache_store(@, key, a),
                                       !.accelerations = Append(@, a),
                                       !.calls.from_forces = @ + 1])

\* v(n-1) = v(n-2) + 1/2*(a(n-2) + a(n-1))*dt
velocity_update(s) ==
    Velocities_add(Last(s.velocities),
        Velocities_half(Velocities_from_acceleration(
            Accelerations_add(Last(s.accelerations), Last2(s.accelerations)), s.step_size)))

\* ForcePropagationHandler._calculate_velocity
calculate_velocity(s) ==
    LET key == velocity_cache_key(s)
    IN  IF key \in DOMAIN s.velocity_cache
            THEN Ended("ok", [s EXCEPT !.velocities = Append(@, s.velocity_cache[key])])
        ELSE IF Len(s.accelerations) < 2 \/ s.velocities = <<>> THEN Ended("IndexError", s)
        ELSE IF ~IsTime(s.step_size) THEN Ended("TypeError", s)
        ELSE LET v == velocity_update(s)
             IN  Ended("ok", [s EXCEPT !.velocity_cache = cache_store(@, key, v),
                                       !.velocities = Append(@, v),
                                       !.calls.from_acceleration = @ + 1])

\* x(n) = x(n-1) + v(n-1)*dt + 1/2*a(n-1)*dt^2
first_step_structure(s) ==
    Positions_add(
        Positions_add(Last(s.structures), Positions_from_velocity(Last(s.velocities), s.step_size)),
        Positions_half(Positions_from_acceleration(Last(s.accelerations), s.step_size)))

\* x(n) = 2*x(n-1) - x(n-2) + a(n-1)*dt^2
later_step_structure(s) ==
    Positions_add(
        Positions_sub(Positions_mul(Last(s.structures), 2), Last2(s.structures)),
        Positions_from_acceleration(Last(s.accelerations), s.step_size))

\* Verlet.run_next_step, from "Calculate x(n)" on
Verlet_structure(s) ==
    IF Len(s.structures) = 1
        THEN IF s.velocities = <<>> THEN Ended("IndexError", s)
             ELSE IF ~IsTime(s.step_size) THEN Ended("TypeError", s)
             ELSE Ended("ok", [s EXCEPT !.structures = Append(@, first_step_structure(s))])
    ELSE IF Len(s.structures) < 2 THEN Ended("IndexError", s)
    ELSE IF ~IsTime(s.step_size) THEN Ended("TypeError", s)
    ELSE Ended("ok", [s EXCEPT !.structures = Append(@, later_step_structure(s))])

\* VelocityVerlet.run_next_step, from "Calculate x(n)" on
VelocityVerlet_structure(s) ==
    IF s.structures = <<>> \/ s.velocities = <<>> THEN Ended("IndexError", s)
    ELSE IF ~IsTime(s.step_size) THEN Ended("TypeError", s)
    ELSE Ended("ok", [s EXCEPT !.structures = Append(@, first_step_structure(s))])

\* if len(program_state.structures) > 1: cls._calculate_velocity(program_state)
output_velocity(s) ==
    IF Len(s.structures) > 1 THEN calculate_velocity(s) ELSE Ended("ok", s)

\* Verlet.run_next_step / VelocityVerlet.run_next_step
run_next_step(algorithm, s) ==
    LET valid == validate_program_state(s)
    IN  IF valid # "ok" THEN Ended(valid, s)
        ELSE LET a == calculate_acceleration(s)
             IN  IF a.outcome # "ok" THEN a
                 ELSE LET v == output_velocity(a.s)
                      IN  IF v.outcome # "ok" THEN v
                          ELSE IF algorithm = "VERLET" THEN Verlet_structure(v.s)
                          ELSE VelocityVerlet_structure(v.s)

(* ------------------------------- the logs ------------------------------ *)
\* What a log holds, read off its lines: whether some line has "Normal
\* termination", whether a "Forces (Hartrees/Bohr)" line is followed by a
\* "Cartesian Forces" line (the forces block), the values of the readable
\* "SCF Done" lines before the first forces header, the number of "SCF Done"
\* lines and of forces headers, and whether some "SCF Done" line is too short.
Count(log, tags) == Cardinality({i \in 1..Len(log) : log[i].t \in tags})
HeaderAt(log) ==
    IF \E i \in 1..Len(log) : log[i].t = "hdr"
        THEN CHOOSE i \in 1..Len(log) :
                /\ log[i].t = "hdr"
                /\ \A j \in 1..(i - 1) : log[j].t # "hdr"
    ELSE Len(log) + 1
IsScf(l) == l.t = "scf"
ScfBefore(log) ==
    LET lines == SelectSeq(SubSeq(log, 1, HeaderAt(log) - 1), IsScf)
    IN  [k \in 1..Len(lines) |-> lines[k].e]
Summary(log) ==
    [normal    |-> \E i \in 1..Len(log) : log[i].t = "nt",
     closed    |-> \E h, c \in 1..Len(log) : h < c /\ log[h].t = "hdr" /\ log[c].t = "end",
     scf       |-> ScfBefore(log),
     scf_lines |-> Count(log, {"scf", "scf_bad"}),
     headers   |-> Count(log, {"hdr"}),
     malformed |-> Count(log, {"scf_bad"}) > 0]
NoLog == Summary(<<>>)

\* the runs of the ESP: the log it leaves and what parse_forces makes of it
EspCalls == {[log |-> Summary(l), result |-> parse_forces(l)] : l \in Logs}

(* ------------------------ random_number_generator.py ------------------- *)
\* A RandomNumberGenerator is [seed, pos, draws]: the seed fixes the stream
\* of random() values, pos counts the values consumed, draws lists the
\* methods that consumed them.  random() values are quarters: raw / 4.
raw(seed, k) == (seed + (k * (k + 1)) \div 2 + k \div 3) % 4
RandomNumberGenerator(seed) == [seed |-> seed, pos |-> 0, draws |-> <<>>]
next_random(random, method) ==
    [random EXCEPT !.pos = @ + 1, !.draws = Append(@, method)]
\* uniform(): random(), in quarters
uniform(random) == raw(random.seed, random.pos)
\* edge_weighted(): sin(2*pi*random()), which is 0, 1, 0, -1 on the quarters
edge_weighted(random) == <<0, 1, 0, -1>>[raw(random.seed, random.pos) + 1]
\* one_or_neg_one(): 2 * (random() >= 0.5) - 1
one_or_neg_one(random) == IF raw(random.seed, random.pos) >= 2 THEN 1 ELSE -1

(* ------------------------- initial_energy_sampler.py ------------------- *)
\* Energies are stored in joule; 0.5 * h * c is HALF_H_C joule per cm^-1 and
\* a kcal/mol and a mdyne*angstrom are KCAL_PER_MOLE_TO_JOULE and
\* MILLIDYNE_ANGSTROM_TO_JOULE joule (the factors the other way are their
\* reciprocals).
HALF_H_C == 2
KCAL_PER_MOLE_TO_JOULE == 2
MILLIDYNE_ANGSTROM_TO_JOULE == 2
CLASSICAL_SPACING == 2
Energies_as_kcal_per_mole(e) == e \div KCAL_PER_MOLE_TO_JOULE
Energies_as_millidyne_angstrom(e) == e \div MILLIDYNE_ANGSTROM_TO_JOULE

RECURSIVE Sum(_)
Sum(l) == IF l = <<>> THEN 0 ELSE l[1] + Sum(Tail(l))
RECURSIVE Power(_, _)
Power(b, n) == IF n = 0 THEN 1 ELSE b * Power(b, n - 1)
\* math.sqrt on the grid: the largest k with k * k <= n
ISqrt(n) == CHOOSE k \in 0..n : k * k <= n /\ (k + 1) * (k + 1) > n

\* _calculate_zero_point_energies: the energy of each mode, in joule
zero_point_energy(frequency, oscillator_type) ==
    IF oscillator_type = "CLASSICAL" THEN HALF_H_C * CLASSICAL_SPACING
    ELSE HALF_H_C * Max(frequency, 2)
calculate_zero_point_energies(g) ==
    [f \in 1..Len(g.frequencies) |-> zero_point_energy(g.frequencies[f], g.oscillator_type)]

\* math.exp(-2 * zpe / (GAS_CONSTANT_KCAL * T)) capped at 0.99999999999, on
\* the grid: quarters that rise with T / zpe for T > 0; for T < 0 the
\* exponent is positive and math.exp raises OverflowError when it exceeds the
\* float range (T close to 0: Overflow), else the value is capped (Capped).
ExpRange == 4
Capped == 4
Overflow == -1
zpe_ratio(zpe, T) ==
    IF T < 0 THEN (IF (-T) * ExpRange < zpe THEN Overflow ELSE Capped)
    ELSE Min(3, T \div zpe)

\* max_iter = int(4000 * zpe_ratio + 2)
max_iter(q) == IF q = Capped THEN 4001 ELSE 1000 * q + 2
\* c_e_fraction after i - 1 additions is 1 - zpe_ratio^i; with zpe_ratio =
\* q / 4 and random_number = w / 4,  random_number > c_e_fraction  reads
\* w * 4^(i-1) > 4^i - q^i.  The capped ratio leaves c_e_fraction below any
\* random_number > 0 until max_iter is reached.
RECURSIVE count_quanta(_, _, _)
count_quanta(q, w, i) ==
    IF q = Capped THEN (IF w > 0 THEN max_iter(q) ELSE 0)
    ELSE IF i <= max_iter(q) /\ w * Power(4, i - 1) > Power(4, i) - Power(q, i)
        THEN count_quanta(q, w, i + 1)
    ELSE i - 1

\* the loop of _sample over the modes from mode f on: one uniform() per mode
RECURSIVE sample_modes(_, _, _, _, _)
sample_modes(g, zpe, f, numbers, random) ==
    IF f > Len(g.frequencies) THEN [outcome |-> "ok", numbers |-> numbers, random |-> random]
    ELSE LET q == zpe_ratio(Energies_as_kcal_per_mole(zpe[f]), g.temperature)
         IN  IF q = Overflow
                THEN [outcome |-> "OverflowError", numbers |-> numbers, random |-> random]
             ELSE sample_modes(g, zpe, f + 1,
                               Append(numbers, count_quanta(q, uniform(random), 1)),
                               next_random(random, "uniform"))

\* for mode, quanta in fixed_vibrational_quanta.items(): numbers[mode - 1] = quanta
fixed_quanta_fit(numbers, fixed) == \A m \in DOMAIN fixed : m <= Len(numbers)
apply_fixed_quanta(numbers, fixed) ==
    [f \in 1..Len(numbers) |-> IF f \in DOMAIN fixed THEN fixed[f] ELSE numbers[f]]

\* the value of an expression, evaluated once: the element of a singleton
the(S) == CHOOSE x \in S : TRUE

\* _sample: [outcome, numbers, sampled, random]; sampled are the numbers
\* before the fixed quanta are applied
sample(g, zpe) ==
    IF g.temperature = 0
        THEN LET z == [f \in 1..Len(g.frequencies) |-> 0]
             IN  [outcome |-> "ok", numbers |-> z, sampled |-> z, random |-> g.random]
    ELSE LET s == sample_modes(g, zpe, 1, <<>>, g.random)
             fixed == apply_fixed_quanta(s.numbers, g.fixed_vibrational_quanta)
         IN  IF s.outcome # "ok"
                THEN [outcome |-> s.outcome, numbers |-> <<>>, sampled |-> <<>>,
                      random |-> s.random]
             ELSE IF ~fixed_quanta_fit(s.numbers, g.fixed_vibrational_quanta)
                THEN [outcome |-> "IndexError", numbers |-> <<>>, sampled |-> s.numbers,
                      random |-> s.random]
             ELSE [outcome |-> "ok", numbers |-> fixed, sampled |-> s.numbers,
                   random |-> s.random]

\* the energy of mode f with n quanta, in joule
mode_energy(g, zpe, f, n) ==
    IF g.oscillator_type = "QUASICLASSICAL" /\ g.frequencies[f] > 10
        THEN zpe[f] * (2 * n + 1)
    ELSE zpe[f] * (2 * n)
\* ForceConstants stores every force constant as a triple (x, x, x) and
\* as_millidyne_per_angstrom(f) returns the triple: arithmetic of a float with
\* it raises TypeError.  "Scalars" is an object whose
\* as_millidyne_per_angstrom(f) returns one number.
returns_triples(force_constants) == force_constants.kind = "ForceConstants"
\* max_shift = sqrt(2 * energy (mdyne*angstrom) / force constant)
max_shift(g, f, energy) ==
    ISqrt((2 * Energies_as_millidyne_angstrom(energy)) \div g.force_constants.values[f])
\* whether the mode draws a random weight: frequency > 10 and a displacement
\* type that has one (of EDGE_WEIGHTED, GAUSSIAN_DISTRIBUTION and UNIFORM the
\* inputs here use EDGE_WEIGHTED)
draws_weight(g, f) ==
    g.frequencies[f] > 10 /\ g.geometry_displacement_type = "EDGE_WEIGHTED"

\* the loop of _calculate_displacement from mode f on
RECURSIVE displacement_modes(_, _, _, _, _, _, _)
displacement_modes(g, zpe, numbers, f, energies, shifts, random) ==
    IF f > Len(g.frequencies)
        THEN [outcome |-> "ok", total_mode_energy |-> Sum(energies), shifts |-> shifts,
              mode_energies |-> energies, random |-> random]
    ELSE LET energy == mode_energy(g, zpe, f, numbers[f])
             weight == IF draws_weight(g, f) THEN edge_weighted(random) ELSE 0
         IN  displacement_modes(g, zpe, numbers, f + 1, Append(energies, energy),
                                Append(shifts, max_shift(g, f, energy) * weight),
                                IF draws_weight(g, f)
                                    THEN next_random(random, "edge_weighted") ELSE random)
\* _calculate_displacement: [outcome, total_mode_energy, shifts,
\* mode_energies, random]; the division by the force constant of the first
\* mode comes before any draw
calculate_displacement(g, zpe, numbers, random) ==
    IF g.frequencies # <<>> /\ returns_triples(g.force_constants)
        THEN [outcome |-> "TypeError", total_mode_energy |-> 0, shifts |-> <<>>,
              mode_energies |-> <<>>, random |-> random]
    ELSE displacement_modes(g, zpe, numbers, 1, <<>>, <<>>, random)

\* _sample followed by _calculate_displacement, as generate calls them:
\* [outcome, numbers, sampled, mode_energies, shifts, total_mode_energy, random]
with_displacement(s, d) ==
    IF d.outcome # "ok"
        THEN [outcome |-> d.outcome, numbers |-> s.numbers, sampled |-> s.sampled,
              mode_energies |-> <<>>, shifts |-> <<>>, total_mode_energy |-> 0,
              random |-> d.random]
    ELSE [outcome |-> "ok", numbers |-> s.numbers, sampled |-> s.sampled,
          mode_energies |-> d.mode_energies, shifts |-> d.shifts,
          total_mode_energy |-> d.total_mode_energy, random |-> d.random]
draw_sample(g, zpe) ==
    the({IF s.outcome # "ok"
            THEN [outcome |-> s.outcome, numbers |-> <<>>, sampled |-> s.sampled,
                  mode_energies |-> <<>>, shifts |-> <<>>, total_mode_energy |-> 0,
                  random |-> s.random]
         ELSE the({with_displacement(s, d) :
                    d \in {calculate_displacement(g, zpe, s.numbers, s.random)}}) :
            s \in {sample(g, zpe)}})

\* the assignments of generate that take a sample into its local variables
\* keeping the shifts of the sample before
resample_keep_shifts(g, s) ==
    [g EXCEPT !.vibrational_quantum_numbers = s.numbers,
              !.mode_energies = s.mode_energies,
              !.total_mode_energy = s.total_mode_energy,
              !.random = s.random,
              !.sampled = s.sampled,
              !.sample_temperature = g.temperature,
              !.drawn = [numbers |-> s.numbers, mode_energies |-> s.mode_energies,
                         shifts |-> s.shifts, total_mode_energy |-> s.total_mode_energy]]
\* vibrational_quantum_numbers = _sample(...); total_mode_energy, shifts,
\* mode_energies = _calculate_displacement(...)
resample(g, s) ==
    [g EXCEPT !.vibrational_quantum_numbers = s.numbers,
              !.mode_energies = s.mode_energies,
              !.shifts = s.shifts,
              !.total_mode_energy = s.total_mode_energy,
              !.random = s.random,
              !.sampled = s.sampled,
              !.sample_temperature = g.temperature,
              !.drawn = [numbers |-> s.numbers, mode_energies |-> s.mode_energies,
                         shifts |-> s.shifts, total_mode_energy |-> s.total_mode_energy]]

\* a call that raises: generate is left with the exception
raised(g, exception) == [g EXCEPT !.pc = "raised", !.outcome = exception]

\* _energy_boost: [resample, temperature]
energy_boost(total_mode_energy, g) ==
    LET energy == Energies_as_kcal_per_mole(total_mode_energy)
    IN  IF energy <= g.energy_boost_min
            THEN [resample |-> TRUE, temperature |-> g.temperature + 5]
        ELSE IF energy >= g.energy_boost_max
            THEN [resample |-> TRUE, temperature |-> g.temperature - 2]
        ELSE [resample |-> FALSE, temperature |-> g.temperature]

\* generate, up to the energy-boost loop
generate_enter(g) ==
    IF g.frequencies = <<>> THEN raised(g, "InputError")
    ELSE IF g.temperature < 0 THEN raised(g, "InputError")
    ELSE LET zpe == calculate_zero_point_energies(g)
             s == draw_sample(g, zpe)
             h == [resample(g, s) EXCEPT !.zero_point_energies = zpe, !.attempts = 1]
         IN  IF s.outcome # "ok" THEN raised([g EXCEPT !.random = s.random], s.outcome)
             ELSE IF g.energy_boost = "ON"
                THEN IF g.energy_boost_max < Energies_as_kcal_per_mole(Sum(zpe))
                        THEN raised(h, "InputError")
                     ELSE [h EXCEPT !.pc = "boost"]
             ELSE [h EXCEPT !.pc = "displace"]

\* generate_boost with an outer iteration cap: the third attempt is taken
\* whatever its energy
generate_boost_capped(g) ==
    LET b == energy_boost(g.total_mode_energy, g)
        h == [g EXCEPT !.temperature = b.temperature,
                       !.boost = [calls |-> g.boost.calls + 1,
                                  energy |-> Energies_as_kcal_per_mole(g.total_mode_energy),
                                  before |-> g.temperature, resample |-> b.resample]]
    IN  IF ~b.resample \/ g.attempts >= 3 THEN [h EXCEPT !.pc = "displace"]
        ELSE the({IF s.outcome # "ok" THEN raised([h EXCEPT !.random = s.random], s.outcome)
                  ELSE [resample(h, s) EXCEPT !.attempts = @ + 1] :
                    s \in {draw_sample(h, h.zero_point_energies)}})
\* one evaluation of  while _energy_boost(total_mode_energy, program_state),
\* with the loop body when it asks for a resample
generate_boost(g) ==
    LET b == energy_boost(g.total_mode_energy, g)
        h == [g EXCEPT !.temperature = b.temperature,
                       !.boost = [calls |-> g.boost.calls + 1,
                                  energy |-> Energies_as_kcal_per_mole(g.total_mode_energy),
                                  before |-> g.temperature, resample |-> b.resample]]
    IN  IF ~b.resample THEN [h EXCEPT !.pc = "displace"]
        ELSE the({IF s.outcome # "ok" THEN raised([h EXCEPT !.random = s.random], s.outcome)
                  ELSE [resample(h, s) EXCEPT !.attempts = @ + 1] :
                    s \in {draw_sample(h, h.zero_point_energies)}})

\* sum over the modes 1..f of mode_displacements[f][j] * weights[f]
RECURSIVE along_modes(_, _, _, _)
along_modes(g, j, weights, f) ==
    IF f = 0 THEN NoVec
    ELSE VAdd(along_modes(g, j, weights, f - 1), VMul(g.mode_displacements[f][j], weights[f]))

\* _geometry_displacement: structures[0][j] += mode_displacements[f][j] * shift[f]
geometry_displacement(shifts, g) ==
    [j \in 1..g.number_atoms |-> VAdd(g.structures[1][j], along_modes(g, j, shifts, Len(shifts)))]

\* generate: "Stretch coordinates"
generate_displace(g) ==
    [g EXCEPT !.structures = IF g.geometry_displacement_type # "NONE"
                                THEN <<geometry_displacement(g.shifts, g)>> ELSE @,
              !.used = [@ EXCEPT !.geometry = g.shifts],
              !.pc = "velocities"]

SquaredDistance(a, b) ==
    LET d == VSub(a, b) IN d[1] * d[1] + d[2] * d[2] + d[3] * d[3]
\* _check_if_mode_pushes_apart with the comparison turned round
check_if_mode_brings_together(g) ==
    LET i == g.phase[1]
        j == g.phase[2]
        before_distance == SquaredDistance(g.structures[1][i], g.structures[1][j])
        after_distance == SquaredDistance(VAdd(g.structures[1][i], g.mode_displacements[1][i]),
                                          VAdd(g.structures[1][j], g.mode_displacements[1][j]))
    IN  after_distance < before_distance
\* _check_if_mode_pushes_apart
check_if_mode_pushes_apart(g) ==
    LET i == g.phase[1]
        j == g.phase[2]
        before_distance == SquaredDistance(g.structures[1][i], g.structures[1][j])
        after_distance == SquaredDistance(VAdd(g.structures[1][i], g.mode_displacements[1][i]),
                                          VAdd(g.structures[1][j], g.mode_displacements[1][j]))
    IN  after_distance > before_distance

\* draws_direction with a mode that has a fixed direction drawing nothing
draws_direction_unless_fixed(g, f) ==
    /\ ~(f = 1 /\ g.frequencies[f] < 0 /\ g.phase_direction # "RANDOM")
    /\ f \notin DOMAIN g.fixed_mode_directions
\* whether mode f takes its direction from one_or_neg_one()
draws_direction(g, f) ==
    ~(f = 1 /\ g.frequencies[f] < 0 /\ g.phase_direction # "RANDOM")
\* the direction of mode f before mode_directions.append
mode_direction(g, f, random) ==
    LET d1 == IF draws_direction(g, f) THEN one_or_neg_one(random)
              ELSE IF check_if_mode_pushes_apart(g) THEN 1 ELSE -1
        d2 == IF g.phase_direction = "BRING_TOGETHER" THEN -d1 ELSE d1
    IN  IF f \in DOMAIN g.fixed_mode_directions THEN g.fixed_mode_directions[f] ELSE d2
\* kinetic energy of mode f and its velocity without the sign
mode_speed(g, f) ==
    LET kinetic_energy == Energies_as_millidyne_angstrom(g.mode_energies[f])
                            - ((g.force_constants.values[f] * g.shifts[f] * g.shifts[f]) \div 2)
    IN  ISqrt((2 * kinetic_energy) \div g.reduced_masses[f])

\* the loop of _calculate_mode_velocities from mode f on
RECURSIVE mode_velocities_from(_, _, _, _, _)
mode_velocities_from(g, f, mode_velocities, mode_directions, random) ==
    IF f > Len(g.frequencies)
        THEN [mode_velocities |-> mode_velocities, mode_directions |-> mode_directions,
              random |-> random]
    ELSE LET direction == mode_direction(g, f, random)
         IN  mode_velocities_from(g, f + 1,
                Append(mode_velocities, direction * mode_speed(g, f)),
                Append(mode_directions, direction),
                IF draws_direction(g, f) THEN next_random(random, "one_or_neg_one")
                ELSE random)
\* _calculate_mode_velocities
calculate_mode_velocities(g) == mode_velocities_from(g, 1, <<>>, <<>>, g.random)

\* _calculate_atomic_velocities
calculate_atomic_velocities(mode_velocities, g) ==
    [j \in 1..g.number_atoms |-> along_modes(g, j, mode_velocities, Len(mode_velocities))]

\* generate from "Calculate velocities and energies" to its end, with
\* add_rotational_energy NO
generate_velocities(g) ==
    LET m == calculate_mode_velocities(g)
    IN  IF returns_triples(g.force_constants) THEN raised(g, "TypeError")
        ELSE
        [g EXCEPT !.mode_directions = m.mode_directions,
                  !.mode_velocities = m.mode_velocities,
                  !.random = m.random,
                  !.velocities = Append(@, calculate_atomic_velocities(m.mode_velocities, g)),
                  !.used = [@ EXCEPT !.mode_energies = g.mode_energies,
                                     !.shifts = g.shifts,
                                     !.numbers = g.vibrational_quantum_numbers,
                                     !.draws_before = Len(g.random.draws)],
                  !.pc = "sampled"]

\* _calculate_zero_point_energies and _sample called on a program state
call_sample(g) ==
    LET zpe == calculate_zero_point_energies(g)
        s == sample(g, zpe)
    IN  [g EXCEPT !.pc = "called", !.outcome = s.outcome, !.random = s.random,
                  !.zero_point_energies = zpe,
                  !.vibrational_quantum_numbers = s.numbers,
                  !.sampled = s.sampled,
                  !.sample_temperature = g.temperature,
                  !.drawn = [@ EXCEPT !.numbers = s.numbers]]
\* _energy_boost called on an Energies object and a program state
call_energy_boost(total_mode_energy, g) ==
    LET b == energy_boost(total_mode_energy, g)
    IN  [g EXCEPT !.pc = "called", !.temperature = b.temperature,
                  !.total_mode_energy = total_mode_energy,
                  !.boost = [calls |-> g.boost.calls + 1,
                             energy |-> Energies_as_kcal_per_mole(total_mode_energy),
                             before |-> g.temperature, resample |-> b.resample]]

\* generate, one stage at a time
generate(g) ==
    IF g.pc = "generate" THEN generate_enter(g)
    ELSE IF g.pc = "boost" THEN generate_boost(g)
    ELSE IF g.pc = "displace" THEN generate_displace(g)
    ELSE generate_velocities(g)

(* ------------------- the conversion factors, exactly ------------------- *)
\* A factor is a product of powers of ten and of the measured constants of
\* scientific_constants.py: the exponent of each.  1 / f has the opposite
\* exponents, so two factors are reciprocal exactly when their product is One.
Bases ==
    {"ten", "BOHR_TO_ANGSTROM", "AMU_TO_KG", "HARTREE_PER_BOHR_TO_NEWTON", "CALORIE_TO_JOULE",
     "AVOGADROS_NUMBER", "HARTREE_TO_JOULE"}
One == [b \in Bases |-> 0]
Exactly(base, n) == [b \in Bases |-> IF b = base THEN n ELSE 0]
Mul(f, g) == [b \in Bases |-> f[b] + g[b]]
Inv(f) == [b \in Bases |-> 0 - f[b]]

sc_FROM_KILO == Exactly("ten", 3)
sc_TO_KILO == Inv(sc_FROM_KILO)
sc_TO_MILLI == Exactly("ten", 3)
sc_FROM_MILLI == Inv(sc_TO_MILLI)
sc_PARTICLE_TO_MOLE == Inv(Exactly("AVOGADROS_NUMBER", 1))
sc_ANGSTROM_TO_METER == Exactly("ten", -10)
sc_METER_TO_ANGSTROM == Inv(sc_ANGSTROM_TO_METER)
sc_BOHR_TO_ANGSTROM == Exactly("BOHR_TO_ANGSTROM", 1)
sc_ANGSTROM_TO_BOHR == Inv(sc_BOHR_TO_ANGSTROM)
sc_AMU_TO_KG == Exactly("AMU_TO_KG", 1)
sc_KG_TO_AMU == Inv(sc_AMU_TO_KG)
sc_HARTREE_PER_BOHR_TO_NEWTON == Exactly("HARTREE_PER_BOHR_TO_NEWTON", 1)
sc_NEWTON_TO_HARTREE_PER_BOHR == Inv(sc_HARTREE_PER_BOHR_TO_NEWTON)
sc_NEWTON_TO_DYNE == Exactly("ten", 5)
sc_DYNE_TO_NEWTON == Inv(sc_NEWTON_TO_DYNE)
sc_SECOND_TO_FEMTOSECOND == Exactly("ten", 15)
sc_FEMTOSECOND_TO_SECOND == Inv(sc_SECOND_TO_FEMTOSECOND)
sc_CALORIE_TO_JOULE == Exactly("CALORIE_TO_JOULE", 1)
sc_JOULE_TO_CALORIE == Inv(sc_CALORIE_TO_JOULE)
sc_JOULE_TO_KCAL_PER_MOLE == Mul(Mul(sc_TO_KILO, sc_JOULE_TO_CALORIE), Inv(sc_PARTICLE_TO_MOLE))
sc_KCAL_PER_MOLE_TO_JOULE == Inv(sc_JOULE_TO_KCAL_PER_MOLE)
sc_JOULE_TO_MILLIDYNE_ANGSTROM == Mul(Mul(sc_TO_MILLI, sc_NEWTON_TO_DYNE), sc_METER_TO_ANGSTROM)
sc_MILLIDYNE_ANGSTROM_TO_JOULE == Inv(sc_JOULE_TO_MILLIDYNE_ANGSTROM)
sc_HARTREE_TO_JOULE == Exactly("HARTREE_TO_JOULE", 1)
sc_JOULE_TO_HARTREE == Inv(sc_HARTREE_TO_JOULE)

\* the units append (for Time: the constructor) accepts, by container
Units(container) ==
    IF container = "Positions" THEN {"ANGSTROM", "BOHR", "METER"}
    ELSE IF container = "Velocities"
        THEN {"METER_PER_SEC", "ANGSTROM_PER_FS", "ANGSTROM_PER_SEC"}
    ELSE IF container = "Accelerations" THEN {"METER_PER_SEC_SQRD"}
    ELSE IF container = "Forces" THEN {"NEWTON", "DYNE", "MILLIDYNE", "HARTREE_PER_BOHR"}
    ELSE IF container = "Frequencies" THEN {"RECIP_CM"}
    ELSE IF container = "ForceConstants" THEN {"NEWTON_PER_METER", "MILLIDYNE_PER_ANGSTROM"}
    ELSE IF container = "Masses" THEN {"AMU", "KILOGRAM", "GRAM"}
    ELSE IF container = "Time" THEN {"SECOND", "FEMTOSECOND"}
    ELSE {"JOULE", "KCAL_PER_MOLE", "MILLIDYNE_ANGSTROM", "HARTREE"}

\* the factor append multiplies a value given in the unit by
input_factor(container, unit) ==
    IF unit = "BOHR" THEN sc_BOHR_TO_ANGSTROM
    ELSE IF unit = "METER" THEN sc_METER_TO_ANGSTROM
    ELSE IF unit = "ANGSTROM_PER_FS" THEN Mul(sc_ANGSTROM_TO_METER, Inv(sc_FEMTOSECOND_TO_SECOND))
    ELSE IF unit = "ANGSTROM_PER_SEC" THEN sc_ANGSTROM_TO_METER
    ELSE IF unit = "DYNE" THEN sc_DYNE_TO_NEWTON
    ELSE IF unit = "MILLIDYNE" THEN Mul(sc_FROM_MILLI, sc_DYNE_TO_NEWTON)
    ELSE IF unit = "HARTREE_PER_BOHR" THEN sc_HARTREE_PER_BOHR_TO_NEWTON
    ELSE IF unit = "MILLIDYNE_PER_ANGSTROM" THEN Exactly("ten", -1)
    ELSE IF unit = "KILOGRAM" THEN sc_KG_TO_AMU
    ELSE IF unit = "GRAM" THEN Mul(sc_TO_KILO, sc_KG_TO_AMU)
    ELSE IF unit = "FEMTOSECOND" THEN sc_FEMTOSECOND_TO_SECOND
    ELSE IF unit = "KCAL_PER_MOLE" THEN sc_KCAL_PER_MOLE_TO_JOULE
    ELSE IF unit = "MILLIDYNE_ANGSTROM" THEN sc_MILLIDYNE_ANGSTROM_TO_JOULE
    ELSE IF unit = "HARTREE" THEN sc_HARTREE_TO_JOULE
    ELSE One

\* the getters with the factor of the unit analysis for mdyne/A, 100
output_factor_by_unit_analysis(container, unit) ==
    IF unit = "MILLIDYNE_PER_ANGSTROM" THEN Exactly("ten", 2)
    ELSE Inv(input_factor(container, unit))
\* the factor the getter as_<unit> multiplies the stored value by
output_factor(container, unit) ==
    IF unit = "BOHR" THEN sc_ANGSTROM_TO_BOHR
    ELSE IF unit = "METER" THEN sc_ANGSTROM_TO_METER
    ELSE IF unit = "ANGSTROM_PER_FS" THEN Mul(sc_METER_TO_ANGSTROM, Inv(sc_SECOND_TO_FEMTOSECOND))
    ELSE IF unit = "ANGSTROM_PER_SEC" THEN sc_METER_TO_ANGSTROM
    ELSE IF unit = "DYNE" THEN sc_NEWTON_TO_DYNE
    ELSE IF unit = "MILLIDYNE" THEN Mul(sc_NEWTON_TO_DYNE, sc_TO_MILLI)
    ELSE IF unit = "HARTREE_PER_BOHR" THEN sc_NEWTON_TO_HARTREE_PER_BOHR
    ELSE IF unit = "MILLIDYNE_PER_ANGSTROM" THEN Exactly("ten", 1)
    ELSE IF unit = "KILOGRAM" THEN sc_AMU_TO_KG
    ELSE IF unit = "GRAM" THEN Mul(sc_AMU_TO_KG, sc_FROM_KILO)
    ELSE IF unit = "FEMTOSECOND" THEN sc_SECOND_TO_FEMTOSECOND
    ELSE IF unit = "KCAL_PER_MOLE" THEN sc_JOULE_TO_KCAL_PER_MOLE
    ELSE IF unit = "MILLIDYNE_ANGSTROM" THEN sc_JOULE_TO_MILLIDYNE_ANGSTROM
    ELSE IF unit = "HARTREE" THEN sc_JOULE_TO_HARTREE
    ELSE One

\* numbers as they are given, and multiplied by a factor
given(numbers) == [i \in DOMAIN numbers |-> [n |-> numbers[i], scale |-> One]]
scaled(entry, factor) ==
    [i \in DOMAIN entry |-> [n |-> entry[i].n, scale |-> Mul(entry[i].scale, factor)]]
\* ForceConstants.append: a single number becomes (x, x, x)
broadcast(container, numbers) ==
    IF container = "ForceConstants" /\ Len(numbers) = 1
        THEN <<numbers[1], numbers[1], numbers[1]>>
    ELSE numbers
\* append(..., units): the entry the container stores
container_append(container, unit, numbers) ==
    scaled(given(broadcast(container, numbers)), input_factor(container, unit))
\* as_<unit>(index): the entry in the unit
container_as(container, unit, entry) == scaled(entry, output_factor(container, unit))

(* ----------------------- random_number_generator.py -------------------- *)
\* random.Random(seed): the stream at its start, no spare value of gauss()
Random(seed) == [seed |-> seed, pos |-> 0, draws |-> <<>>, gauss_next |-> None]

\* self.rng.gauss(mu, sigma): the spare value of the call before, or two
\* random() numbers that give the value and a spare one
gauss(rng) ==
    IF rng.gauss_next # None
        THEN [value |-> rng.gauss_next[1], rng |-> [rng EXCEPT !.gauss_next = None]]
    ELSE LET a == raw(rng.seed, rng.pos)
             b == raw(rng.seed, rng.pos + 1)
         IN  [value |-> <<1, 0, -1, 0>>[a + 1] * b,
              rng |-> [rng EXCEPT !.pos = @ + 2,
                                  !.gauss_next = Some(<<0, 1, 0, -1>>[a + 1] * b)]]
\* gaussian(): while True: value = gauss(); if -1 <= value <= 1: return value
RECURSIVE gaussian(_)
gaussian(rng) ==
    LET g == gauss(rng)
    IN  IF -1 <= g.value /\ g.value <= 1 THEN g ELSE gaussian(g.rng)

\* int.from_bytes(os.urandom(4), byteorder="big"): whatever the system gives
generate_seed(entropy) == entropy
\* RandomNumberGenerator.__init__(seed)
generator(seed, entropy) ==
    LET started == IF seed = None THEN generate_seed(entropy) ELSE seed[1]
    IN  [seed |-> started, rng |-> Random(started)]
\* reset_seed that reseeds self.rng and leaves the other attributes
reset_seed_in_place(self, seed, entropy) ==
    [self EXCEPT !.rng = [Random(generator(seed, entropy).seed) EXCEPT
                              !.gauss_next = self.rng.gauss_next]]
\* reset_seed(seed): self.__init__(seed)
reset_seed(self, seed, entropy) == generator(seed, entropy)

\* a call of uniform, edge_weighted, gaussian or one_or_neg_one
generator_call(self, method) ==
    IF method = "gaussian"
        THEN LET g == gaussian(self.rng)
             IN  [value |-> g.value,
                  self |-> [self EXCEPT !.rng = [g.rng EXCEPT !.draws = Append(@, method)]]]
    ELSE [value |-> IF method = "uniform" THEN uniform(self.rng)
                    ELSE IF method = "edge_weighted" THEN edge_weighted(self.rng)
                    ELSE one_or_neg_one(self.rng),
          self |-> [self EXCEPT !.rng = next_random(@, method)]]

(* ------------------------- tools/setup_ensemble.py ---------------------- *)
\* A template line is what _process_job_section looks for in it: "$job",
\* "$end", "random_seed", "memory" (the line "memory 4"), or none of these.
\* "random_seed_placeholder" is the line with the placeholder.
Placeholder == "random_seed_placeholder"

\* _process_job_section(line, in_job_section, random_seed_set, memory, ...)
process_job_section(line, in_job_section, random_seed_set, memory) ==
    IF line = "$job"
        THEN [in_job_section |-> TRUE, random_seed_set |-> random_seed_set,
              memory |-> memory, line |-> line]
    ELSE IF in_job_section /\ line = "$end"
        THEN [in_job_section |-> FALSE, random_seed_set |-> random_seed_set,
              memory |-> memory, line |-> line]
    ELSE IF in_job_section /\ line \in {"random_seed", Placeholder}
        THEN [in_job_section |-> TRUE, random_seed_set |-> TRUE,
              memory |-> memory, line |-> Placeholder]
    ELSE IF in_job_section /\ line = "memory"
        THEN [in_job_section |-> TRUE, random_seed_set |-> random_seed_set,
              memory |-> Some(5), line |-> line]
    ELSE [in_job_section |-> in_job_section, random_seed_set |-> random_seed_set,
          memory |-> memory, line |-> line]

\* one pass of "for line in template_file" in process_template_file
process_line(t) ==
    LET r == process_job_section(t.file[t.read + 1], t.in_job_section, t.random_seed_set,
                                 t.memory)
        insert == ~r.in_job_section /\ ~r.random_seed_set
    IN  [t EXCEPT !.read = @ + 1,
                  !.in_job_section = r.in_job_section,
                  !.random_seed_set = r.random_seed_set \/ insert,
                  !.memory = r.memory,
                  !.template = IF insert THEN @ \o <<r.line, Placeholder>>
                               ELSE Append(@, r.line)]

(* ---------------------------- input_parser.py -------------------------- *)
\* A tokenized line is line.split(maxsplit=1): its first word and the rest.
\* int(token) succeeds on these words
is_int(token) == token \in {"0", "1"}

\* token_keys = [tokens[0].casefold() for tokens in tokenized_lines]
token_keys(lines) == [i \in 1..Len(lines) |-> lines[i][1]]
count(keys, key) == Cardinality({i \in 1..Len(keys) : keys[i] = key})

REQUIRED_SECTIONS == {"$job", "$molecule"}
NO_DUPLICATE_SECTIONS ==
    {"$molecule", "$isotope", "$velocities", "$frequency_data", "$gaussian_footer"}
MUTUALLY_EXCLUSIVE_SECTIONS == {{"$velocities", "$frequency_data"}}

\* validate_sections without the check of the mutually exclusive sections
validate_sections_inclusive(keys) ==
    IF \E section \in REQUIRED_SECTIONS : count(keys, section) = 0 THEN "missing"
    ELSE IF \E section \in NO_DUPLICATE_SECTIONS : count(keys, section) > 1 THEN "multiple"
    ELSE "ok"
\* validate_sections: which check raises InputError, or "ok"
validate_sections(keys) ==
    IF \E section \in REQUIRED_SECTIONS : count(keys, section) = 0 THEN "missing"
    ELSE IF \E section \in NO_DUPLICATE_SECTIONS : count(keys, section) > 1 THEN "multiple"
    ELSE IF \E m_e_set \in MUTUALLY_EXCLUSIVE_SECTIONS :
                Cardinality({section \in m_e_set : count(keys, section) > 0}) > 1
        THEN "exclusive"
    ELSE "ok"

\* validate_job_parameters, for the parameters of the inputs
validate_job_parameters(job_parameters) ==
    IF count(job_parameters, "gaussian_header") = 0 THEN "missing"
    ELSE IF count(job_parameters, "gaussian_header") > 1 THEN "multiple"
    ELSE "ok"

\* the body of get_section_tokens: the loop over tokenized_lines
RECURSIVE section_tokens(_, _, _, _, _)
section_tokens(lines, i, section, in_section, tokens) ==
    IF i > Len(lines) THEN tokens
    ELSE IF lines[i][1] = section THEN section_tokens(lines, i + 1, section, TRUE, tokens)
    ELSE IF lines[i][1] = "$end" THEN section_tokens(lines, i + 1, section, FALSE, tokens)
    ELSE section_tokens(lines, i + 1, section, in_section,
                        IF in_section THEN Append(tokens, lines[i]) ELSE tokens)

\* get_section_tokens under lru_cache: a call with arguments seen before
\* returns the list object of the first call, as it is by now
get_section_tokens(cache, lines, section) ==
    IF <<lines, section>> \in DOMAIN cache
        THEN [tokens |-> cache[<<lines, section>>], cache |-> cache]
    ELSE LET tokens == section_tokens(lines, 1, section, FALSE, <<>>)
         IN  [tokens |-> tokens, cache |-> (<<lines, section>> :> tokens) @@ cache]

\* ProgramState(): what parse_input is given
FreshState ==
    [charge |-> None, spin |-> None, atoms |-> <<>>, input_structure |-> <<>>,
     structures |-> <<>>, velocities |-> <<>>]

\* parse_molecule_data: molecule_tokens.pop(0) changes the list it is given
parse_molecule_data(molecule_tokens, state) ==
    IF molecule_tokens = <<>>
        THEN [outcome |-> "InputError", state |-> state, tokens |-> molecule_tokens]
    ELSE LET charge_and_spin == Head(molecule_tokens)
             rest == Tail(molecule_tokens)
         IN  IF ~is_int(charge_and_spin[1])
                 THEN [outcome |-> "InputError", state |-> state, tokens |-> rest]
             ELSE IF Len(charge_and_spin) < 2 \/ ~is_int(charge_and_spin[2])
                 THEN [outcome |-> "InputError",
                       state |-> [state EXCEPT !.charge = Some(charge_and_spin[1])],
                       tokens |-> rest]
             ELSE [outcome |-> "ok",
                   state |-> [state EXCEPT !.charge = Some(charge_and_spin[1]),
                                           !.spin = Some(charge_and_spin[2]),
                                           !.atoms = [k \in 1..Len(rest) |-> rest[k][1]],
                                           !.input_structure =
                                               [k \in 1..Len(rest) |-> rest[k][2]]],
                   tokens |-> rest]

\* parse_input from "Process isotope data" on, for sections whose lines are
\* well formed: the structure, and the velocities with their count
parse_sections(keys, velocities_tokens, state) ==
    LET placed == [state EXCEPT !.structures = Append(@, state.input_structure)]
    IN  IF count(keys, "$velocities") = 0 THEN [outcome |-> "ok", state |-> placed]
        ELSE LET read == [placed EXCEPT !.velocities =
                              <<[k \in 1..Len(velocities_tokens) |-> velocities_tokens[k]]>>]
             IN  IF Len(velocities_tokens) # Len(state.atoms)
                     THEN [outcome |-> "InputError", state |-> read]
                 ELSE [outcome |-> "ok", state |-> read]

\* parse_input(input_lines, ProgramState()): how it ends, the program state
\* it leaves and the cache of get_section_tokens after it
parse_input(lines, cache) ==
    LET keys == token_keys(lines)
    IN  IF validate_sections(keys) # "ok"
            THEN [outcome |-> "InputError", raised |-> "validate_sections",
                  state |-> FreshState, cache |-> cache]
        ELSE LET job == get_section_tokens(cache, lines, "$job")
                 molecule == get_section_tokens(job.cache, lines, "$molecule")
                 isotope == get_section_tokens(molecule.cache, lines, "$isotope")
                 velocity == get_section_tokens(isotope.cache, lines, "$velocities")
                 frequency == get_section_tokens(velocity.cache, lines, "$frequency_data")
             IN  IF validate_job_parameters(token_keys(job.tokens)) # "ok"
                     THEN [outcome |-> "InputError", raised |-> "validate_job_parameters",
                           state |-> FreshState, cache |-> frequency.cache]
                 ELSE LET m == parse_molecule_data(molecule.tokens, FreshState)
                          popped == [key \in DOMAIN frequency.cache |->
                                        IF key = <<lines, "$molecule">> THEN m.tokens
                                        ELSE frequency.cache[key]]
                      IN  IF m.outcome # "ok"
                              THEN [outcome |-> "InputError", raised |-> "parse_molecule_data",
                                    state |-> m.state, cache |-> popped]
                          ELSE LET r == parse_sections(keys, velocity.tokens, m.state)
                               IN  [outcome |-> r.outcome, raised |-> "parse_input",
                                    state |-> r.state, cache |-> popped]

(* ------------------------------- the state ----------------------------- *)
VARIABLES
    driver,                 \* "main": main() runs; "esp", "integrator": the handlers are called directly
    pc,                     \* where main() is
    atoms,                  \* program_state.atoms: the masses, in amu
    step_size,              \* program_state.step_size
    current_step,           \* program_state.current_step
    max_steps,              \* program_state.max_steps, or None
    propagation_algorithm,  \* program_state.propagation_algorithm
    structures, velocities, forces, accelerations, energies,
    acceleration_cache,     \* ForcePropagationHandler._acceleration_cache
    velocity_cache,         \* ForcePropagationHandler._velocity_cache
    printed,                \* the "SCF Energy" values main has printed
    footer,                 \* whether main has printed "Normal termination."
    output_xyz_file,        \* program_state.output_xyz_file
    xyz_file,               \* the step labels of the .xyz file main has written, or None
    operands,               \* <<a, b>>: the containers a container operation is applied to
    value,                  \* what the last container operation returned, or None
    run,                    \* a run of initial_energy_sampler.generate: the program state
                            \* it works on, generate's local variables and where it is
    twin,                   \* a second run, on inputs that differ in fixed_mode_directions
    handled,                \* the program state objects _calculate_* are called on, and the calls
    parsing,                \* calls of input_parser.parse_input in one process
    streams,                \* two RandomNumberGenerator objects and what they returned
    conversion,             \* a value appended to a container and read back
    ensemble,               \* setup_ensemble.process_template_file, line by line
    entry_step,             \* current_step when main entered its loop
    iterations,             \* completed passes of main's loop body
    esp_calls,              \* calls of generate_forces / parse_forces
    step_calls,             \* calls of run_next_step
    last                    \* the last handler call: how it ended, its log, the state before it

vars == <<driver, pc, atoms, step_size, current_step, max_steps, propagation_algorithm,
          structures, velocities, forces, accelerations, energies,
          acceleration_cache, velocity_cache, printed, footer, output_xyz_file, xyz_file,
          operands, value, run, twin, handled, parsing, streams, conversion, ensemble,
          entry_step, iterations, esp_calls, step_calls, last>>

config == <<driver, atoms, step_size, max_steps, propagation_algorithm, entry_step,
            output_xyz_file, operands>>
\* what main prints and writes when its loop is over
report == <<footer, xyz_file, value>>
\* the runs of the sampler
sampler == <<run, twin>>
\* the modules exercised on their own
tools == <<handled, parsing, streams, conversion, ensemble>>
\* the program state of main and of the handlers, and what main reports
program == <<pc, atoms, step_size, current_step, max_steps, propagation_algorithm,
             structures, velocities, forces, accelerations, energies, printed, footer,
             output_xyz_file, xyz_file, operands, value, run, twin,
             entry_step, iterations, esp_calls, step_calls, last>>
\* ForcePropagationHandler's class attributes
caches == <<acceleration_cache, velocity_cache>>

\* calls of Accelerations.from_forces and of Velocities.from_acceleration
NoCalls == [from_forces |-> 0, from_acceleration |-> 0]
\* id(program_state): one ProgramState object lives in a run
StateId == "program_state"

Trajectory ==
    [structures |-> structures, velocities |-> velocities, forces |-> forces,
     accelerations |-> accelerations, energies |-> energies]

HandlerState ==
    [id |-> StateId, atoms |-> atoms, step_size |-> step_size,
     structures |-> structures, velocities |-> velocities, forces |-> forces,
     accelerations |-> accelerations,
     acceleration_cache |-> acceleration_cache, velocity_cache |-> velocity_cache,
     calls |-> NoCalls]

Call(op, outcome, log) == [op |-> op, outcome |-> outcome, log |-> log, pre |-> Trajectory]

(* -------------------------------- inputs ------------------------------- *)
Algorithms == {"VERLET", "VELOCITY_VERLET"}
\* containers.Time as ProgramState and the parser build it; a plain number
\* and an object that is a Time and orders against numbers, as callers and
\* the tests' step_size doubles supply
Time(d) == [kind |-> "Time", time |-> d]
Number(d) == [kind |-> "Number", time |-> d]
OrderedTime(d) == [kind |-> "OrderedTime", time |-> d]
ParsedStepSizes == {Time(1)}
StepSizes == {Time(0), Time(1), Number(0), Number(1), OrderedTime(0), OrderedTime(1), OrderedTime(2)}
Molecules == {<<2>>, <<1, 2>>}
InputStructure(m) == [i \in 1..Len(m) |-> <<i, 0, -i>>]
InitialVelocities(m) == {[i \in 1..Len(m) |-> <<3, -i, 0>>]}
\* Forces objects a caller appends: one row per atom
ForceRows == {<<4, 0, -4>>, <<-8, 4, 0>>}
ForcesFor(m) == {[i \in 1..Len(m) |-> f] : f \in ForceRows}
\* an earlier step's entries, for a parse_forces call on a state in mid-run
EarlierForces == <<<<12, 0, 0>>>>
EarlierEnergy == <<-4>>

\* nothing computed, printed or written yet
InitTrajectory ==
    /\ accelerations = <<>>
    /\ printed = <<>>
    /\ footer = FALSE
    /\ xyz_file = None
    /\ value = None
    /\ iterations = 0
    /\ esp_calls = 0
    /\ step_calls = 0
    /\ entry_step = current_step
    /\ structures = <<InputStructure(atoms)>>
    /\ last = Call("none", "ok", NoLog)
InitCommon ==
    /\ InitTrajectory
    /\ acceleration_cache = <<>>
    /\ velocity_cache = <<>>

\* main() at "while not end_conditions_met": parse_input and the sampler done
InitMain ==
    /\ driver = "main"
    /\ run = NoRun
    /\ twin = NoRun
    /\ operands = <<>>
    /\ pc = "while"
    /\ atoms \in Molecules
    /\ step_size \in ParsedStepSizes
    /\ current_step \in 0..MaxStep
    /\ max_steps \in {None} \cup {Some(n) : n \in 0..MaxStep}
    /\ propagation_algorithm \in Algorithms
    /\ output_xyz_file \in BOOLEAN
    /\ velocities \in {<<v>> : v \in InitialVelocities(atoms)}
    /\ forces = <<>>
    /\ energies = <<>>

\* GaussianHandler.parse_forces called on a program state
InitEsp ==
    /\ driver = "esp"
    /\ run = NoRun
    /\ twin = NoRun
    /\ operands = <<>>
    /\ pc = "direct"
    /\ atoms = <<2>>
    /\ step_size = Time(1)
    /\ current_step = 0
    /\ max_steps = None
    /\ propagation_algorithm = "VERLET"
    /\ output_xyz_file = TRUE
    /\ velocities = <<>>
    /\ \E n \in 0..1 :
        /\ forces = [k \in 1..n |-> EarlierForces]
        /\ energies = [k \in 1..n |-> EarlierEnergy]

\* run_next_step called on a program state to which forces are appended
InitIntegrator ==
    /\ driver = "integrator"
    /\ run = NoRun
    /\ twin = NoRun
    /\ operands = <<>>
    /\ pc = "direct"
    /\ atoms \in Molecules \cup {<<>>}
    /\ step_size \in StepSizes
    /\ current_step = 0
    /\ max_steps = None
    /\ propagation_algorithm \in Algorithms
    /\ output_xyz_file = TRUE
    /\ velocities \in {<<v>> : v \in InitialVelocities(atoms)}
    /\ forces = <<>>
    /\ energies = <<>>

\* containers of 0..MaxRows rows, for the operations applied directly
Rows(n) == UNION {[1..k -> ForceRows] : k \in 0..n}

\* a + b, a - b and Accelerations.from_forces(a, atoms) called on containers
InitContainers ==
    /\ driver = "containers"
    /\ run = NoRun
    /\ twin = NoRun
    /\ pc = "direct"
    /\ operands \in Rows(MaxRows) \X Rows(MaxRows)
    /\ atoms \in Molecules \cup {<<>>}
    /\ step_size = Time(1)
    /\ current_step = 0
    /\ max_steps = None
    /\ propagation_algorithm = "VERLET"
    /\ output_xyz_file = TRUE
    /\ velocities = <<>>
    /\ forces = <<>>
    /\ energies = <<>>

\* the inputs of the sampler: two atoms, one or two modes
FrequencySets == {<<>>, <<12>>, <<-4, 12>>}
Temperatures == {-1, 0, 1, 24}
OscillatorTypes == {"QUASICLASSICAL", "CLASSICAL"}
\* fixed_vibrational_quanta and fixed_mode_directions: mode -> value
FixedQuanta == {<<>>, 1 :> 3, 2 :> 1}
FixedDirections == {<<>>, 1 :> -1, 2 :> 1}
\* the fixed_mode_directions of a run and of its twin
TwinDirections ==
    {d \in FixedDirections \X FixedDirections :
        DOMAIN d[2] = {} \/ (DOMAIN d[1] = {1} /\ DOMAIN d[2] = {2})}
\* program_state.force_constants: the container, or an object of scalars
ForceConstantKinds == {"ForceConstants", "Scalars"}
\* phase_direction, and the first mode moving the phase atoms apart or not
PhaseDirections == {"RANDOM", "PUSH_APART", "BRING_TOGETHER"}
ModeDisplacements ==
    {<<<<<<-1, 0, 0>>, <<1, 0, 0>>>>, <<<<0, 1, 0>>, <<0, -1, 0>>>>>>,
     <<<<<<1, 0, 0>>, <<-1, 0, 0>>>>, <<<<0, 1, 0>>, <<0, -1, 0>>>>>>}
GeometryDisplacements == {"NONE", "EDGE_WEIGHTED"}
\* energy_boost off, or on with min and max in kcal/mol
EnergyBoosts ==
    {[on |-> "OFF", min |-> 0, max |-> 0], [on |-> "ON", min |-> 12, max |-> 40],
     [on |-> "ON", min |-> 20, max |-> 40], [on |-> "ON", min |-> 2, max |-> 8]}

\* a ProgramState as parse_input leaves it for the sampler, and generate's
\* local variables before the call
SamplerState(frequencies, temperature, oscillator, quanta, directions, phase_direction, displacements, geometry, boost, seed, kind) ==
    [pc |-> "generate", outcome |-> "ok",
     frequencies |-> frequencies, oscillator_type |-> oscillator,
     fixed_vibrational_quanta |-> quanta, fixed_mode_directions |-> directions,
     phase_direction |-> phase_direction, phase |-> <<1, 2>>,
     geometry_displacement_type |-> geometry,
     energy_boost |-> boost.on, energy_boost_min |-> boost.min, energy_boost_max |-> boost.max,
     force_constants |-> [kind |-> kind, values |-> [f \in 1..Len(frequencies) |-> 2]],
     reduced_masses |-> [f \in 1..Len(frequencies) |-> 2],
     mode_displacements |-> displacements, number_atoms |-> 2,
     temperature |-> temperature, random |-> RandomNumberGenerator(seed),
     structures |-> <<InputStructure(<<1, 2>>)>>, velocities |-> <<>>,
     zero_point_energies |-> <<>>, vibrational_quantum_numbers |-> <<>>,
     mode_energies |-> <<>>, shifts |-> <<>>, total_mode_energy |-> 0, attempts |-> 0,
     mode_directions |-> <<>>, mode_velocities |-> <<>>,
     sampled |-> <<>>, sample_temperature |-> temperature,
     drawn |-> [numbers |-> <<>>, mode_energies |-> <<>>, shifts |-> <<>>,
                total_mode_energy |-> 0],
     boost |-> [calls |-> 0, energy |-> 0, before |-> temperature, resample |-> FALSE],
     used |-> [geometry |-> <<>>, mode_energies |-> <<>>, shifts |-> <<>>,
               numbers |-> <<>>, draws_before |-> 0]]

\* initial_energy_sampler.generate called on a program state; the twin has
\* the same seed and inputs but for fixed_mode_directions
InitSampler ==
    /\ driver = "sampler"
    /\ pc = "direct"
    /\ \E frequencies \in FrequencySets, temperature \in Temperatures,
          oscillator \in OscillatorTypes, quanta \in FixedQuanta,
          phase_direction \in PhaseDirections, displacements \in ModeDisplacements,
          geometry \in GeometryDisplacements, boost \in EnergyBoosts, seed \in 0..MaxSeed :
        \E d \in TwinDirections, kind \in ForceConstantKinds :
            /\ run = SamplerState(frequencies, temperature, oscillator, quanta, d[1],
                                  phase_direction, displacements, geometry, boost, seed, kind)
            /\ twin = SamplerState(frequencies, temperature, oscillator, quanta, d[2],
                                   phase_direction, displacements, geometry, boost, seed, kind)
    /\ operands = <<>>
    /\ atoms = <<1, 2>>
    /\ step_size = Time(1)
    /\ current_step = 0
    /\ max_steps = None
    /\ propagation_algorithm = "VERLET"
    /\ output_xyz_file = TRUE
    /\ velocities = <<>>
    /\ forces = <<>>
    /\ energies = <<>>

\* the Energies (joule) _energy_boost is called on
BoostEnergies == {8, 24, 48, 100}

\* _sample and _energy_boost called on a program state, as the tests do
InitSamplerCalls ==
    /\ driver = "sampler_calls"
    /\ pc = "direct"
    /\ \E frequencies \in FrequencySets, temperature \in Temperatures,
          oscillator \in OscillatorTypes, quanta \in FixedQuanta,
          boost \in EnergyBoosts, seed \in 0..MaxSeed :
            run = SamplerState(frequencies, temperature, oscillator, quanta, <<>>, "RANDOM",
                               CHOOSE m \in ModeDisplacements : TRUE, "NONE", boost, seed,
                               "ForceConstants")
    /\ twin = NoRun
    /\ operands = <<>>
    /\ atoms = <<1, 2>>
    /\ step_size = Time(1)
    /\ current_step = 0
    /\ max_steps = None
    /\ propagation_algorithm = "VERLET"
    /\ output_xyz_file = TRUE
    /\ velocities = <<>>
    /\ forces = <<>>
    /\ energies = <<>>

\* no module is exercised on its own
IdleTools ==
    /\ handled = NoRun
    /\ parsing = NoRun
    /\ streams = NoRun
    /\ conversion = NoRun
    /\ ensemble = NoRun

\* a program state nothing is done to
IdleProgram ==
    /\ pc = "direct"
    /\ run = NoRun
    /\ twin = NoRun
    /\ operands = <<>>
    /\ atoms = <<1, 2>>
    /\ step_size = Time(1)
    /\ current_step = 0
    /\ max_steps = None
    /\ propagation_algorithm = "VERLET"
    /\ output_xyz_file = TRUE
    /\ velocities = <<>>
    /\ forces = <<>>
    /\ energies = <<>>

(* -------- _calculate_acceleration and _calculate_velocity on their own ---- *)
\* id(program_state): the addresses a ProgramState object can be given
ObjectIds == {1, 2}
\* a cache that CacheLimit earlier calls have filled, one key per step of an
\* earlier program state whose id is not given out again
EarlierCache(entry) == [key \in {<<0, n>> : n \in 1..CacheLimit} |-> entry]
EarlierAcceleration == Accelerations_from_forces([i \in 1..2 |-> <<4, 0, -4>>], <<1, 2>>)
EarlierVelocity == CHOOSE v \in InitialVelocities(<<1, 2>>) : TRUE
EarlierCaches ==
    {<<<<>>, <<>>>>, <<EarlierCache(EarlierAcceleration), EarlierCache(EarlierVelocity)>>}

\* a ProgramState object of two atoms with one Forces entry
ProgramStateObject(id, f, earlier) ==
    [id |-> id, atoms |-> <<1, 2>>, step_size |-> Time(1),
     structures |-> <<InputStructure(<<1, 2>>)>>,
     velocities |-> <<EarlierVelocity>>, forces |-> <<f>>, accelerations |-> earlier]

NoCall == [op |-> "none", outcome |-> "ok", pre |-> <<>>, appended |-> <<>>,
           repeat |-> FALSE, first |-> <<>>, kept |-> FALSE, computed |-> FALSE]
\* first: what the first call on the object appended, by number of entries;
\* lost: the numbers of entries whose cache entry a cleanup has removed
NoHistory == [first |-> <<>>, lost |-> {}]

\* the object before its first step, or in mid-run with two accelerations
InitCache ==
    /\ driver = "cache"
    /\ IdleProgram
    /\ InitTrajectory
    /\ parsing = NoRun
    /\ streams = NoRun
    /\ conversion = NoRun
    /\ ensemble = NoRun
    /\ \E c \in EarlierCaches : acceleration_cache = c[1] /\ velocity_cache = c[2]
    /\ \E id \in ObjectIds, f \in ForcesFor(<<1, 2>>),
          earlier \in {<<>>, <<EarlierAcceleration, EarlierAcceleration>>} :
            handled = [pc |-> "cache", object |-> ProgramStateObject(id, f, earlier),
                       calls |-> NoCalls, ops |-> 0,
                       acceleration |-> NoHistory, velocity |-> NoHistory, call |-> NoCall]

(* ------------------------- parse_input on its own ----------------------- *)
SectionNames ==
    {"$job", "$molecule", "$isotope", "$velocities", "$frequency_data", "$gaussian_footer"}
\* the tokenized lines of a section of an input file for H2
SectionBody(name) ==
    IF name = "$job" THEN <<<<"gaussian_header", "hf/sto-3g">>>>
    ELSE IF name = "$molecule" THEN <<<<"0", "1">>, <<"H", "0 0 0">>, <<"H", "0 0 0.7">>>>
    ELSE IF name = "$velocities" THEN <<<<"0", "0 1">>, <<"0", "0 -1">>>>
    ELSE <<>>
SectionLines(name) == <<<<name>>>> \o SectionBody(name) \o <<<<"$end">>>>
RECURSIVE InputLines(_)
InputLines(sections) ==
    IF sections = <<>> THEN <<>>
    ELSE SectionLines(Head(sections)) \o InputLines(Tail(sections))
\* input files of up to MaxSections sections, in any order and number
InputFiles == UNION {[1..n -> SectionNames] : n \in 0..MaxSections}

\* a process in which parse_input has not been called yet
InitParser ==
    /\ driver = "parser"
    /\ IdleProgram
    /\ InitCommon
    /\ handled = NoRun
    /\ streams = NoRun
    /\ conversion = NoRun
    /\ ensemble = NoRun
    /\ \E sections \in InputFiles :
          parsing = [pc |-> "parser", sections |-> sections, lines |-> InputLines(sections),
                     cache |-> <<>>, calls |-> <<>>]

(* ------------------- RandomNumberGenerator on its own ------------------- *)
Methods == {"uniform", "edge_weighted", "gaussian", "one_or_neg_one"}
\* the seed argument: None or an integer
SeedArguments == {None} \cup {Some(seed) : seed \in 0..MaxSeed}

\* two generators: a built with a seed, b built with any seed or none
InitStreams ==
    /\ driver = "rng"
    /\ IdleProgram
    /\ InitCommon
    /\ handled = NoRun
    /\ parsing = NoRun
    /\ conversion = NoRun
    /\ ensemble = NoRun
    /\ \E seed \in 0..MaxSeed, other \in SeedArguments, entropy \in 0..MaxSeed :
          streams = [pc |-> "built", a |-> generator(Some(seed), entropy),
                     b |-> generator(other, entropy),
                     returned |-> [a |-> <<>>, b |-> <<>>], discarded |-> 0]

(* ------------------------ a container on its own ----------------------- *)
Containers ==
    {"Positions", "Velocities", "Accelerations", "Forces", "Frequencies", "ForceConstants",
     "Masses", "Time", "Energies"}
\* what append takes: x, y, z; one number; for ForceConstants either
Arguments(container) ==
    IF container \in {"Positions", "Velocities", "Accelerations", "Forces"}
        THEN {<<5, 0, -3>>, <<1, 1, 2>>}
    ELSE IF container = "ForceConstants" THEN {<<5>>, <<5, 0, -3>>}
    ELSE {<<5>>, <<-3>>}

\* a container that holds nothing yet
InitConversion ==
    /\ driver = "units"
    /\ IdleProgram
    /\ InitCommon
    /\ handled = NoRun
    /\ parsing = NoRun
    /\ streams = NoRun
    /\ ensemble = NoRun
    /\ \E container \in Containers :
          conversion = [pc |-> "empty", container |-> container, unit |-> "", numbers |-> <<>>,
                        entry |-> <<>>, getter |-> "", read |-> <<>>]

(* ------------------- process_template_file on its own ------------------- *)
TemplateLines == {"$job", "$end", "random_seed", "memory", "other"}
\* template files of up to MaxLines lines
TemplateFiles == UNION {[1..n -> TemplateLines] : n \in 0..MaxLines}

\* process_template_file before its loop
InitEnsemble ==
    /\ driver = "ensemble"
    /\ IdleProgram
    /\ InitCommon
    /\ handled = NoRun
    /\ parsing = NoRun
    /\ streams = NoRun
    /\ conversion = NoRun
    /\ \E file \in TemplateFiles :
          ensemble = [pc |-> "ensemble", file |-> file, read |-> 0, template |-> <<>>,
                      in_job_section |-> FALSE, random_seed_set |-> FALSE, memory |-> None]

Init ==
    \/ InitCache
    \/ InitParser
    \/ InitStreams
    \/ InitConversion
    \/ InitEnsemble
    \/ /\ \/ InitMain
           \/ InitEsp
           \/ InitIntegrator
           \/ InitContainers
           \/ InitSampler
           \/ InitSamplerCalls
        /\ InitCommon
        /\ IdleTools

(* ------------------------------- main.py ------------------------------- *)
\* end_conditions_met
\* end_conditions_met with > for >=: one more pass through the loop
end_conditions_met_strict(max, step) == max # None /\ step > max[1]
end_conditions_met(max, step) == max # None /\ step >= max[1]

\* main's try / except Exception: ... raise.  A call that raises ends the
\* loop and main; one that returns lets main go on.
after_call_retry(outcome, next) == IF outcome = "ok" THEN next ELSE "while"
after_call(outcome, next) == IF outcome = "ok" THEN next ELSE "raised"

\* while not end_conditions_met(program_state)
MainLoopTest ==
    /\ pc = "while"
    /\ pc' = IF end_conditions_met(max_steps, current_step) THEN "footer" ELSE "generate_forces"
    /\ UNCHANGED <<config, tools, report, sampler, current_step, structures, velocities, forces, accelerations,
                   energies, acceleration_cache, velocity_cache, printed, iterations,
                   esp_calls, step_calls, last>>

\* program_handler.generate_forces(program_state): the ESP runs on
\* structures[-1] and leaves a log, which parse_forces reads
MainGenerateForces ==
    /\ pc = "generate_forces"
    /\ \E call \in EspCalls :
        /\ energies' = energies \o call.result.energies
        /\ forces' = forces \o call.result.forces
        /\ last' = Call("parse_forces", call.result.outcome, call.log)
        /\ pc' = after_call(call.result.outcome, "run_next_step")
    /\ esp_calls' = esp_calls + 1
    /\ UNCHANGED <<config, tools, report, sampler, current_step, structures, velocities, accelerations,
                   acceleration_cache, velocity_cache, printed, iterations,
                   step_calls>>

\* print_state_info reads energies[-1], forces[-1], accelerations[-1] and
\* velocities[-1]: IndexError when one of the lists is empty
print_state_info(s, e) ==
    IF e = <<>> \/ s.forces = <<>> \/ s.accelerations = <<>> \/ s.velocities = <<>>
        THEN "IndexError"
    ELSE "ok"

\* propagation_handler.run_next_step(program_state); print_state_info;
\* program_state.current_step += 1; print_structure
MainRunNextStep ==
    /\ pc = "run_next_step"
    /\ LET r == run_next_step(propagation_algorithm, HandlerState)
           p == IF r.outcome = "ok" THEN print_state_info(r.s, energies) ELSE r.outcome
       IN  /\ structures' = r.s.structures
           /\ velocities' = r.s.velocities
           /\ accelerations' = r.s.accelerations
           /\ acceleration_cache' = r.s.acceleration_cache
           /\ velocity_cache' = r.s.velocity_cache
           /\ last' = Call("run_next_step", r.outcome, NoLog)
           /\ pc' = after_call(p, "while")
           /\ IF p = "ok"
                THEN /\ printed' = Append(printed, scf_energy(energies))
                     /\ current_step' = current_step + 1
                     /\ iterations' = iterations + 1
              ELSE UNCHANGED <<printed, current_step, iterations>>
    /\ step_calls' = step_calls + 1
    /\ UNCHANGED <<config, tools, report, sampler, forces, energies, esp_calls>>

\* print_footer(); if program_state.output_xyz_file: ...
MainFooter ==
    /\ pc = "footer"
    /\ footer' = TRUE
    /\ pc' = IF output_xyz_file THEN "output_xyz_file" ELSE "done"
    /\ UNCHANGED <<config, tools, sampler, current_step, structures, velocities, forces, accelerations,
                   energies, acceleration_cache, velocity_cache, printed, xyz_file, value,
                   iterations, esp_calls, step_calls, last>>

\* xyz_steps with starting_step = current_step - len(structures)
xyz_steps_from_length(step, n) == [k \in 1..n |-> step - n + k - 1]
\* the "Step" labels output_xyz_file writes, one per stored structure:
\* starting_step = current_step - len(structures) + 1
xyz_steps(step, n) == [k \in 1..n |-> step - n + k]

\* output_xyz_file(program_state)
MainOutputXyz ==
    /\ pc = "output_xyz_file"
    /\ xyz_file' = Some(xyz_steps(current_step, Len(structures)))
    /\ pc' = "done"
    /\ UNCHANGED <<config, tools, sampler, current_step, structures, velocities, forces, accelerations,
                   energies, acceleration_cache, velocity_cache, printed, footer, value,
                   iterations, esp_calls, step_calls, last>>

(* ------------------------ the handlers, called directly ---------------- *)
\* GaussianHandler.parse_forces(log_file, program_state)
CallParseForces ==
    /\ driver = "esp"
    /\ last.op = "none"
    /\ \E call \in EspCalls :
        /\ energies' = energies \o call.result.energies
        /\ forces' = forces \o call.result.forces
        /\ last' = Call("parse_forces", call.result.outcome, call.log)
    /\ esp_calls' = esp_calls + 1
    /\ UNCHANGED <<config, tools, report, sampler, pc, current_step, structures, velocities, accelerations,
                   acceleration_cache, velocity_cache, printed, iterations, step_calls>>

\* program_state.forces.append(forces): the caller supplies the forces of the
\* current structure, forces[n-1] before call n of the integrator
CallAppendForces ==
    /\ driver = "integrator"
    /\ step_calls < MaxCalls
    /\ Len(forces) = step_calls
    /\ \E f \in ForcesFor(atoms) : forces' = Append(forces, f)
    /\ last' = Call("append_forces", "ok", NoLog)
    /\ UNCHANGED <<config, tools, report, sampler, pc, current_step, structures, velocities, accelerations, energies,
                   acceleration_cache, velocity_cache, printed, iterations, esp_calls,
                   step_calls>>

\* get_propagation_handler(program_state).run_next_step(program_state)
CallRunNextStep ==
    /\ driver = "integrator"
    /\ step_calls < MaxCalls
    /\ LET r == run_next_step(propagation_algorithm, HandlerState)
       IN  /\ structures' = r.s.structures
           /\ velocities' = r.s.velocities
           /\ accelerations' = r.s.accelerations
           /\ acceleration_cache' = r.s.acceleration_cache
           /\ velocity_cache' = r.s.velocity_cache
           /\ last' = Call("run_next_step", r.outcome, NoLog)
    /\ step_calls' = step_calls + 1
    /\ UNCHANGED <<config, tools, report, sampler, pc, current_step, forces, energies, printed, iterations, esp_calls>>

\* main.output_xyz_file(program_state) called on the state the integrator
\* calls have left
CallOutputXyz ==
    /\ driver = "integrator"
    /\ xyz_file = None
    /\ xyz_file' = Some(xyz_steps(current_step, Len(structures)))
    /\ last' = Call("output_xyz_file", "ok", NoLog)
    /\ UNCHANGED <<config, tools, sampler, pc, current_step, structures, velocities, forces,
                   accelerations, energies, acceleration_cache, velocity_cache, printed,
                   footer, value, iterations, esp_calls, step_calls>>

\* the container operations that combine two sequences, as a call: how it
\* ends and what it returns
ContainerOps ==
    {"Positions.__add__", "Positions.__sub__", "Velocities.__add__",
     "Accelerations.__add__", "Accelerations.from_forces"}
container_op(op, a, b, m) ==
    IF op = "Positions.__add__" THEN [outcome |-> "ok", value |-> Some(Positions_add(a, b))]
    ELSE IF op = "Positions.__sub__" THEN [outcome |-> "ok", value |-> Some(Positions_sub(a, b))]
    ELSE IF op = "Velocities.__add__" THEN [outcome |-> "ok", value |-> Some(Velocities_add(a, b))]
    ELSE IF op = "Accelerations.__add__"
        THEN [outcome |-> "ok", value |-> Some(Accelerations_add(a, b))]
    ELSE IF m = <<>> THEN [outcome |-> "IndexError", value |-> None]
    ELSE [outcome |-> "ok", value |-> Some(Accelerations_from_forces(a, m))]

CallContainerOp ==
    /\ driver = "containers"
    /\ last.op = "none"
    /\ \E op \in ContainerOps :
        LET r == container_op(op, operands[1], operands[2], atoms)
        IN  /\ value' = r.value
            /\ last' = Call(op, r.outcome, NoLog)
    /\ UNCHANGED <<config, tools, sampler, pc, current_step, structures, velocities, forces, accelerations,
                   energies, acceleration_cache, velocity_cache, printed, footer, xyz_file,
                   iterations, esp_calls, step_calls>>

\* the stages of initial_energy_sampler.generate(program_state), taken by the
\* run and its twin together
SamplerStage(stage) ==
    /\ driver = "sampler"
    /\ run.pc = stage
    /\ run' = generate(run)
    /\ twin' = IF twin.pc = stage THEN generate(twin) ELSE twin
    /\ UNCHANGED <<config, tools, report, pc, current_step, structures, velocities, forces,
                   accelerations, energies, acceleration_cache, velocity_cache, printed,
                   iterations, esp_calls, step_calls, last>>
\* the checks, zero-point energies and the first sample
GenerateEnter == SamplerStage("generate")
\* while _energy_boost(...): resample
GenerateBoost == driver = "sampler" /\ run.attempts < MaxAttempts /\ SamplerStage("boost")
\* the geometry displacement
GenerateDisplace == SamplerStage("displace")
\* mode and atomic velocities, appended to program_state.velocities
GenerateVelocities == SamplerStage("velocities")

\* initial_energy_sampler._sample(zero_point_energies, program_state)
CallSample ==
    /\ driver = "sampler_calls"
    /\ run.pc = "generate"
    /\ run' = call_sample(run)
    /\ UNCHANGED <<config, tools, report, twin, pc, current_step, structures, velocities, forces,
                   accelerations, energies, acceleration_cache, velocity_cache, printed,
                   iterations, esp_calls, step_calls, last>>
\* initial_energy_sampler._energy_boost(total_mode_energy, program_state)
CallEnergyBoost ==
    /\ driver = "sampler_calls"
    /\ run.pc = "generate"
    /\ \E total_mode_energy \in BoostEnergies : run' = call_energy_boost(total_mode_energy, run)
    /\ UNCHANGED <<config, tools, report, twin, pc, current_step, structures, velocities, forces,
                   accelerations, energies, acceleration_cache, velocity_cache, printed,
                   iterations, esp_calls, step_calls, last>>

(* --------------- the calls of _calculate_* on program states ------------ *)
\* the object and the class attributes, as the handler sees them
HandledState ==
    [id |-> handled.object.id, atoms |-> handled.object.atoms,
     step_size |-> handled.object.step_size, structures |-> handled.object.structures,
     velocities |-> handled.object.velocities, forces |-> handled.object.forces,
     accelerations |-> handled.object.accelerations,
     acceleration_cache |-> acceleration_cache, velocity_cache |-> velocity_cache,
     calls |-> handled.calls]

\* the history of one of the two methods after a call at n entries
history_after(h, n, appended, cache) ==
    LET first == IF n \in DOMAIN h.first THEN h.first ELSE (n :> appended) @@ h.first
    IN  [first |-> first,
         lost |-> IF DOMAIN cache = {} THEN DOMAIN first ELSE h.lost]

call_record(op, r, h, n, computed) ==
    [op |-> op, outcome |-> r.outcome, pre |-> handled.object,
     appended |-> IF op = "acceleration" THEN Last(r.s.accelerations) ELSE Last(r.s.velocities),
     repeat |-> n \in DOMAIN h.first,
     first |-> IF n \in DOMAIN h.first THEN h.first[n] ELSE <<>>,
     kept |-> n \notin h.lost, computed |-> computed]

\* ForcePropagationHandler._calculate_acceleration(program_state)
CallCalculateAcceleration ==
    /\ driver = "cache"
    /\ handled.ops < MaxOps
    /\ LET r == calculate_acceleration(HandledState)
           n == Len(handled.object.forces)
           call == call_record("acceleration", r, handled.acceleration, n,
                               r.s.calls.from_forces > handled.calls.from_forces)
       IN  /\ acceleration_cache' = r.s.acceleration_cache
           /\ handled' = [handled EXCEPT !.object.accelerations = r.s.accelerations,
                                         !.calls = r.s.calls, !.ops = @ + 1, !.call = call,
                                         !.acceleration = history_after(@, n, call.appended,
                                                                        r.s.acceleration_cache)]
    /\ UNCHANGED <<driver, program, velocity_cache, parsing, streams, conversion, ensemble>>

\* ForcePropagationHandler._calculate_velocity(program_state)
CallCalculateVelocity ==
    /\ driver = "cache"
    /\ handled.ops < MaxOps
    /\ LET r == calculate_velocity(HandledState)
           n == Len(handled.object.accelerations)
       IN  /\ velocity_cache' = r.s.velocity_cache
           /\ IF r.outcome = "ok"
                 THEN LET call == call_record("velocity", r, handled.velocity, n,
                                     r.s.calls.from_acceleration > handled.calls.from_acceleration)
                      IN  handled' = [handled EXCEPT !.object.velocities = r.s.velocities,
                                         !.calls = r.s.calls, !.ops = @ + 1, !.call = call,
                                         !.velocity = history_after(@, n, call.appended,
                                                                    r.s.velocity_cache)]
                 ELSE handled' = [handled EXCEPT !.ops = @ + 1,
                                                 !.call = [NoCall EXCEPT !.op = "velocity",
                                                                         !.outcome = r.outcome]]
    /\ UNCHANGED <<driver, program, acceleration_cache, parsing, streams, conversion, ensemble>>

\* the caller appends the Forces of the next step
CallerAppendsForces ==
    /\ driver = "cache"
    /\ handled.ops < MaxOps
    /\ \E f \in ForcesFor(handled.object.atoms) :
          handled' = [handled EXCEPT !.object.forces = Append(@, f), !.ops = @ + 1,
                                     !.call = NoCall]
    /\ UNCHANGED <<driver, program, caches, parsing, streams, conversion, ensemble>>

\* program_state.forces[-1] = f
CallerReplacesForces ==
    /\ driver = "cache"
    /\ handled.ops < MaxOps
    /\ \E f \in ForcesFor(handled.object.atoms) \ {Last(handled.object.forces)} :
          handled' = [handled EXCEPT !.object.forces = [@ EXCEPT ![Len(@)] = f],
                                     !.ops = @ + 1, !.call = NoCall]
    /\ UNCHANGED <<driver, program, caches, parsing, streams, conversion, ensemble>>

\* the program state is discarded and another one is created: its id is any
\* address, the discarded object's included
CallerCreatesState ==
    /\ driver = "cache"
    /\ handled.ops < MaxOps
    /\ \E id \in ObjectIds, f \in ForcesFor(<<1, 2>>) :
          handled' = [handled EXCEPT !.object = ProgramStateObject(id, f, <<>>),
                                     !.acceleration = NoHistory, !.velocity = NoHistory,
                                     !.ops = @ + 1, !.call = NoCall]
    /\ UNCHANGED <<driver, program, caches, parsing, streams, conversion, ensemble>>

(* ------------------------- the calls of parse_input --------------------- *)
\* parse_input(input_lines, ProgramState()) with the lines of the input file
CallParseInput ==
    /\ driver = "parser"
    /\ Len(parsing.calls) < MaxParses
    /\ LET r == parse_input(parsing.lines, parsing.cache)
       IN  parsing' = [parsing EXCEPT !.cache = r.cache,
                          !.calls = Append(@, [outcome |-> r.outcome, raised |-> r.raised,
                                               state |-> r.state])]
    /\ UNCHANGED <<driver, program, caches, handled, streams, conversion, ensemble>>

(* -------------------- the calls of the random generators ---------------- *)
\* b alone returns a value, before a has returned any
DrawEarlier ==
    /\ driver = "rng"
    /\ streams.pc = "built"
    /\ streams.a.rng.draws = <<>>
    /\ Len(streams.b.rng.draws) < MaxDraws
    /\ \E method \in Methods :
          LET r == generator_call(streams.b, method)
          IN  streams' = [streams EXCEPT !.b = r.self,
                                         !.returned.b = Append(@, r.value)]
    /\ UNCHANGED <<driver, program, caches, handled, parsing, conversion, ensemble>>

\* b.reset_seed(seed)
ResetSeed ==
    /\ driver = "rng"
    /\ streams.pc = "built"
    /\ streams.a.rng.draws = <<>>
    /\ \E seed \in SeedArguments, entropy \in 0..MaxSeed :
          streams' = [streams EXCEPT !.pc = "reset",
                                     !.b = reset_seed(streams.b, seed, entropy),
                                     !.returned.b = <<>>,
                                     !.discarded = Len(streams.returned.b)]
    /\ UNCHANGED <<driver, program, caches, handled, parsing, conversion, ensemble>>

\* the same method is called on a and on b, whose calls so far are the same
DrawBoth ==
    /\ driver = "rng"
    /\ streams.a.rng.draws = streams.b.rng.draws
    /\ Len(streams.a.rng.draws) < MaxDraws
    /\ \E method \in Methods :
          LET a == generator_call(streams.a, method)
              b == generator_call(streams.b, method)
          IN  streams' = [streams EXCEPT !.a = a.self, !.b = b.self,
                                         !.returned.a = Append(@, a.value),
                                         !.returned.b = Append(@, b.value)]
    /\ UNCHANGED <<driver, program, caches, handled, parsing, conversion, ensemble>>

(* ----------------------- the calls on the container -------------------- *)
\* container.append(numbers, unit)
ContainerAppend ==
    /\ driver = "units"
    /\ conversion.pc = "empty"
    /\ \E unit \in Units(conversion.container), numbers \in Arguments(conversion.container) :
          conversion' = [conversion EXCEPT !.pc = "appended", !.unit = unit,
                             !.numbers = numbers,
                             !.entry = container_append(conversion.container, unit, numbers)]
    /\ UNCHANGED <<driver, program, caches, handled, parsing, streams, ensemble>>

\* container.as_<unit>(0)
ContainerRead ==
    /\ driver = "units"
    /\ conversion.pc = "appended"
    /\ \E unit \in Units(conversion.container) :
          conversion' = [conversion EXCEPT !.pc = "read", !.getter = unit,
                             !.read = container_as(conversion.container, unit, conversion.entry)]
    /\ UNCHANGED <<driver, program, caches, handled, parsing, streams, ensemble>>

(* -------------------------- the template's lines ----------------------- *)
\* for line in template_file: ...
ProcessTemplateLine ==
    /\ driver = "ensemble"
    /\ ensemble.read < Len(ensemble.file)
    /\ ensemble' = process_line(ensemble)
    /\ UNCHANGED <<driver, program, caches, handled, parsing, streams, conversion>>

Next ==
    \/ MainLoopTest
    \/ MainGenerateForces
    \/ MainRunNextStep
    \/ MainFooter
    \/ MainOutputXyz
    \/ CallParseForces
    \/ CallAppendForces
    \/ CallRunNextStep
    \/ CallContainerOp
    \/ CallOutputXyz
    \/ GenerateEnter
    \/ GenerateBoost
    \/ GenerateDisplace
    \/ GenerateVelocities
    \/ CallSample
    \/ CallEnergyBoost
    \/ CallCalculateAcceleration
    \/ CallCalculateVelocity
    \/ CallerAppendsForces
    \/ CallerReplacesForces
    \/ CallerCreatesState
    \/ CallParseInput
    \/ DrawEarlier
    \/ ResetSeed
    \/ DrawBoth
    \/ ContainerAppend
    \/ ContainerRead
    \/ ProcessTemplateLine

Spec == Init /\ [][Next]_vars

(* ================================ claims =============================== *)
InMain == driver = "main"
AfterParse == last.op = "parse_forces"
AfterStep == last.op = "run_next_step"
\* a step_size that is a Time of positive duration
PositiveTime == IsTime(step_size) /\ step_size.time > 0

\* C1: trajectory indexing in a run of main: between iterations the lists hold
\* iterations + 1 structures and iterations forces, energies and accelerations,
\* current_step is the entry step plus the iterations, and inside iteration n
\* the ESP has added exactly forces[n-1] and energies[n-1] when the integrator
\* is called.
C1_Indexing ==
    InMain =>
        /\ pc = "while" =>
            /\ Len(structures) = iterations + 1
            /\ Len(forces) = iterations
            /\ Len(energies) = iterations
            /\ Len(accelerations) = iterations
            /\ Len(velocities) = Max(1, iterations)
            /\ current_step = entry_step + iterations
        /\ pc = "run_next_step" =>
            /\ Len(forces) = iterations + 1
            /\ Len(energies) = iterations + 1
        /\ (AfterStep /\ PositiveTime) => Len(structures) = iterations + 1 /\ pc = "while"

\* C2: a parse_forces call on a log that contains "Normal termination" adds
\* exactly one entry to forces and exactly one entry to energies.
C2_OneForcesOneEnergy ==
    (AfterParse /\ last.log.normal) =>
        /\ Len(forces) = Len(last.pre.forces) + 1
        /\ Len(energies) = Len(last.pre.energies) + 1

\* C3: with forces and atoms non-empty and a step_size that is a
\* containers.Time of positive duration, run_next_step returns normally and
\* appends one acceleration, one structure, and one velocity exactly when two
\* structures existed before the call.
C3_StepPasses ==
    (AfterStep /\ last.pre.forces # <<>> /\ atoms # <<>>
        /\ step_size.kind = "Time" /\ step_size.time > 0) =>
        /\ last.outcome = "ok"
        /\ Len(accelerations) = Len(last.pre.accelerations) + 1
        /\ Len(structures) = Len(last.pre.structures) + 1
        /\ Len(velocities) = Len(last.pre.velocities)
                + (IF Len(last.pre.structures) >= 2 THEN 1 ELSE 0)

ClaimedVerlet(pre) ==
    LET x == Last(pre.structures)
        dt == step_size.time
        a(i) == VDiv(Last(pre.forces)[i], atoms[i])
    IN  [i \in 1..Len(atoms) |->
            IF Len(pre.structures) = 1
                THEN VAdd(VAdd(x[i], VMul(Last(pre.velocities)[i], dt)),
                          VHalf(VMul(a(i), dt * dt)))
            ELSE VAdd(VSub(VMul(x[i], 2), Last2(pre.structures)[i]), VMul(a(i), dt * dt))]

\* C5: Verlet.run_next_step, called with forces (one row per atom), atoms and
\* a positive Time step, appends x(n-1) + v(n-1)*dt + a(n-1)*dt^2/2 when one
\* structure existed and 2*x(n-1) - x(n-2) + a(n-1)*dt^2 otherwise, with
\* a(n-1) = forces[-1] / mass; no velocity enters the second form.
C5_VerletStructure ==
    (AfterStep /\ propagation_algorithm = "VERLET" /\ PositiveTime
        /\ last.pre.forces # <<>> /\ atoms # <<>>) =>
        /\ last.outcome = "ok"
        /\ structures = Append(last.pre.structures, ClaimedVerlet(last.pre))

\* the protocol of C6: one atom, every run_next_step call preceded by the
\* append of its force, the same force each time
ConstantForceRun ==
    /\ driver = "integrator"
    /\ propagation_algorithm = "VELOCITY_VERLET"
    /\ Len(atoms) = 1
    /\ PositiveTime
    /\ step_calls >= 1
    /\ Len(forces) = step_calls
    /\ \A i, j \in 1..Len(forces) : forces[i] = forces[j]
\* x_0 + v_0*n*dt + a*(n*dt)^2/2
ClaimedPosition(n) ==
    LET t == n * step_size.time
        a == VDiv(forces[1][1], atoms[1])
    IN  VAdd(VAdd(structures[1][1], VMul(velocities[1][1], t)), VHalf(VMul(a, t * t)))

\* C6: Velocity Verlet under a constant force on one atom: after n calls, each
\* preceded by the append of the force, n + 1 structures are stored and the
\* last is x_0 + v_0*n*dt + a*(n*dt)^2/2.
C6_ConstantForce ==
    ConstantForceRun =>
        /\ Len(structures) = step_calls + 1
        /\ Last(structures)[1] = ClaimedPosition(step_calls)

C8_BadLogUnchanged ==
    (AfterParse /\ ~last.log.normal) =>
        /\ last.outcome = "ElectronicStructureProgramError"
        /\ forces = last.pre.forces
        /\ energies = last.pre.energies
C8_Witness ==
    /\ AfterParse
    /\ ~last.log.normal
    /\ last.log.closed
    /\ Len(last.log.scf) = 2
    /\ last.pre.forces # <<>>
    /\ last.outcome = "ElectronicStructureProgramError"

\* C9: on a log with "Normal termination" but no "SCF Done" line, or no forces
\* block closed by "Cartesian Forces", parse_forces raises
\* ElectronicStructureProgramError.
C9_UnparsableFails ==
    (AfterParse /\ last.log.normal /\ (last.log.scf_lines = 0 \/ ~last.log.closed)) =>
        last.outcome = "ElectronicStructureProgramError"

\* C10: after parse_forces on a valid log with k >= 1 "SCF Done" lines before
\* the forces block, energies[-1].as_hartree(0) is the value of the last of them.
C10_LastScfEnergy ==
    (AfterParse /\ last.outcome = "ok" /\ last.log.normal /\ last.log.closed
        /\ ~last.log.malformed /\ Len(last.log.scf) >= 1) =>
        scf_energy(energies) = Last(last.log.scf)

\* C11: errors are fatal and never retried: when generate_forces or
\* run_next_step (with the printing that follows it) raises, main is over: no
\* step is taken afterwards, so no further ESP or integrator call is made,
\* current_step stays at the entry step plus the completed iterations,
\* "Normal termination." is not printed and no .xyz file is written.
C11_Fatal ==
    /\ [](InMain /\ last.outcome # "ok" =>
            /\ pc = "raised"
            /\ current_step = entry_step + iterations
            /\ esp_calls = iterations + 1
            /\ step_calls \in {iterations, iterations + 1}
            /\ ~footer
            /\ xyz_file = None)
    /\ [][pc # "raised"]_vars
C11_Witness ==
    /\ InMain
    /\ pc = "raised"
    /\ AfterParse
    /\ last.outcome = "ElectronicStructureProgramError"
    /\ max_steps # None
    /\ current_step < max_steps[1]

\* b extends a at its end: every entry of a is kept
IsPrefix(a, b) == Len(a) <= Len(b) /\ SubSeq(b, 1, Len(a)) = a

InSampler == driver = "sampler"
\* generate or one of its functions has been called on run
OnSampler == driver \in {"sampler", "sampler_calls"}
\* generate has left the energy-boost part and goes on to the displacement
PastBoost(g) == g.pc \in {"displace", "velocities", "sampled"}
WindowEnergy(g) == Energies_as_kcal_per_mole(g.drawn.total_mode_energy)

C14_InputErrors ==
    (InSampler /\ run.pc # "generate" /\ run.boost.calls = 0
        /\ \/ run.frequencies = <<>>
           \/ run.boost.before < 0
           \/ /\ run.energy_boost = "ON"
              /\ run.energy_boost_max
                    < Energies_as_kcal_per_mole(Sum(calculate_zero_point_energies(run)))) =>
        /\ run.pc = "raised"
        /\ run.outcome = "InputError"
        /\ run.velocities = <<>>
        /\ run.structures = <<InputStructure(<<1, 2>>)>>
        /\ run.temperature = run.boost.before

\* C15: _energy_boost asks for a resample with temperature + 5 exactly when
\* the energy is below energy_boost_min, with temperature - 2 exactly when it
\* is above energy_boost_max, and otherwise (bounds included) accepts the
\* sample and leaves temperature unchanged.
ClaimedBoost(energy, temperature, g) ==
    IF energy < g.energy_boost_min THEN [resample |-> TRUE, temperature |-> temperature + 5]
    ELSE IF energy > g.energy_boost_max THEN [resample |-> TRUE, temperature |-> temperature - 2]
    ELSE [resample |-> FALSE, temperature |-> temperature]
C15_BoostExact ==
    (OnSampler /\ run.boost.calls >= 1) =>
        LET claimed == ClaimedBoost(run.boost.energy, run.boost.before, run)
        IN  /\ run.boost.resample = claimed.resample
            /\ run.temperature = claimed.temperature

OutsideWindow(g) ==
    \/ Energies_as_kcal_per_mole(g.total_mode_energy) < g.energy_boost_min
    \/ Energies_as_kcal_per_mole(g.total_mode_energy) > g.energy_boost_max
\* every mode has fixed quanta, whose energy is above energy_boost_max, and
\* the temperature is one at which _sample applies them
KeptAbove(g) ==
    /\ g.energy_boost = "ON"
    /\ g.frequencies # <<>>
    /\ DOMAIN g.fixed_vibrational_quanta = 1..Len(g.frequencies)
    /\ g.temperature % 2 = 1
    /\ Energies_as_kcal_per_mole(
            Sum([f \in 1..Len(g.frequencies) |->
                    mode_energy(g, calculate_zero_point_energies(g), f,
                                g.fixed_vibrational_quanta[f])]))
        > g.energy_boost_max
C18_FixedQuanta ==
    (OnSampler /\ run.sample_temperature >= 0
        /\ \/ run.attempts >= 1
           \/ run.pc = "called" /\ run.outcome = "ok" /\ run.boost.calls = 0) =>
        \A m \in 1..Len(run.frequencies) :
            run.drawn.numbers[m] =
                IF m \in DOMAIN run.fixed_vibrational_quanta
                    THEN run.fixed_vibrational_quanta[m]
                ELSE run.sampled[m]

\* C19: with a negative first frequency, phase_direction PUSH_APART or
\* BRING_TOGETHER and no fixed direction for mode 1, the direction of mode 1
\* takes no PRNG draw: under PUSH_APART it is +1 if the first mode's
\* displacement increases the squared distance of the phase atoms and -1
\* otherwise, under BRING_TOGETHER the opposite.
PhaseCase(g) ==
    /\ g.pc = "sampled"
    /\ g.frequencies[1] < 0
    /\ g.phase_direction \in {"PUSH_APART", "BRING_TOGETHER"}
    /\ 1 \notin DOMAIN g.fixed_mode_directions
GrowsApart(g) ==
    LET a == g.structures[1][g.phase[1]]
        b == g.structures[1][g.phase[2]]
    IN  SquaredDistance(VAdd(a, g.mode_displacements[1][g.phase[1]]),
                        VAdd(b, g.mode_displacements[1][g.phase[2]]))
            > SquaredDistance(a, b)
C20_UnequalRejected ==
    (last.op \in ContainerOps
        /\ Len(operands[1]) # (IF last.op = "Accelerations.from_forces"
                                THEN Len(atoms) ELSE Len(operands[2]))) =>
        /\ last.outcome # "ok"
        /\ value = None

WrittenFrom ==
    IF InMain THEN structures ELSE last.pre.structures
C21_XyzLabels ==
    /\ (xyz_file # None /\ (InMain \/ last.op = "output_xyz_file")) =>
            LET n == Len(WrittenFrom)
            IN  /\ Len(xyz_file[1]) = n
                /\ \A i \in 0..(n - 1) : xyz_file[1][i + 1] = current_step - n + 1 + i
                /\ xyz_file[1][n] = current_step
    /\ (xyz_file # None /\ InMain) =>
            xyz_file[1] = [k \in 1..(current_step - entry_step + 1) |-> entry_step + k - 1]
C21_Witness ==
    /\ driver = "integrator"
    /\ last.op = "output_xyz_file"
    /\ Len(structures) = 3
    /\ xyz_file = Some(<<-2, -1, 0>>)

C24_RoundTrip ==
    driver = "units" /\ conversion.pc = "read" /\ conversion.getter = conversion.unit =>
        /\ conversion.read = given(broadcast(conversion.container, conversion.numbers))
        /\ Mul(input_factor(conversion.container, conversion.unit),
               output_factor(conversion.container, conversion.unit)) = One
C24_Witness ==
    /\ driver = "units"
    /\ conversion.pc = "read"
    /\ conversion.container = "ForceConstants"
    /\ conversion.unit = "MILLIDYNE_PER_ANGSTROM"
    /\ conversion.getter = "MILLIDYNE_PER_ANGSTROM"
    /\ conversion.numbers = <<5>>
    /\ conversion.entry # given(<<5, 5, 5>>)
    /\ conversion.read = given(<<5, 5, 5>>)

(* ------------------------------ parse_input ---------------------------- *)
\* the input file lacks a required section, repeats a section that may not be
\* repeated, or has both $velocities and $frequency_data
Times(name) == Cardinality({i \in 1..Len(parsing.sections) : parsing.sections[i] = name})
BadSections ==
    \/ Times("$job") = 0
    \/ Times("$molecule") = 0
    \/ \E name \in SectionNames \ {"$job"} : Times(name) > 1
    \/ Times("$velocities") > 0 /\ Times("$frequency_data") > 0

\* C22: on an input file with a missing required section, a repeated
\* section or both $velocities and $frequency_data, parse_input raises
\* InputError and the ProgramState it was given is as it was.
C22_RejectsSections ==
    driver = "parser" /\ BadSections =>
        \A k \in 1..Len(parsing.calls) :
            parsing.calls[k].outcome = "InputError" /\ parsing.calls[k].state = FreshState
C22_Witness ==
    /\ driver = "parser"
    /\ Times("$job") = 1
    /\ Times("$molecule") = 1
    /\ Times("$velocities") = 1
    /\ Times("$frequency_data") = 1
    /\ Len(parsing.calls) = 1
    /\ parsing.calls[1].outcome = "InputError"
    /\ parsing.calls[1].state = FreshState

\* C29: a second parse_input call on the same lines, with a fresh
\* ProgramState, ends as the first did and leaves the same charge, spin,
\* atoms and structures.
C29_Repeatable ==
    driver = "parser" =>
        \A k \in 2..Len(parsing.calls) :
            /\ parsing.calls[k].outcome = parsing.calls[1].outcome
            /\ parsing.calls[k].state = parsing.calls[1].state

(* --------------------------- the ensemble's seed ----------------------- *)
\* process_template_file has returned
Processed == driver = "ensemble" /\ ensemble.read = Len(ensemble.file)
\* the file has a $job line with an $end line after it
HasJobSection ==
    \E i, j \in 1..Len(ensemble.file) :
        i < j /\ ensemble.file[i] = "$job" /\ ensemble.file[j] = "$end"
\* line p of the template is after a $job line, with no $end between, and
\* before an $end line
InJobSection(p) ==
    /\ \E i \in 1..(p - 1) :
          /\ ensemble.template[i] = "$job"
          /\ \A k \in (i + 1)..(p - 1) : ensemble.template[k] # "$end"
    /\ \E j \in (p + 1)..Len(ensemble.template) : ensemble.template[j] = "$end"

\* C30: the template returned for a file with a $job section has the
\* placeholder line exactly once, inside the $job section.
C30_SeedPlacement ==
    Processed /\ HasJobSection =>
        /\ Cardinality({p \in 1..Len(ensemble.template) : ensemble.template[p] = Placeholder}) = 1
        /\ \A p \in 1..Len(ensemble.template) :
              ensemble.template[p] = Placeholder => InJobSection(p)

(* ------------------------- the number of atoms ------------------------- *)
\* every container of the trajectory
TrajectoryEntries == structures \o velocities \o forces \o accelerations

\* C25: every entry of structures, velocities, forces and accelerations holds
\* one triple per atom, whatever the ESP log holds.
C25_AtomCount ==
    driver \in {"main", "esp", "integrator"} =>
        \A i \in 1..Len(TrajectoryEntries) : Len(TrajectoryEntries[i]) = Len(atoms)

(* ------------------------- the handler's caches ------------------------ *)
\* the last step was a call of the method that returned
OnCache(op) ==
    driver = "cache" /\ handled.call.op = op /\ handled.call.outcome = "ok"
\* ... and the object had been passed to the method before, with as many entries
SecondCall(op) == OnCache(op) /\ handled.call.repeat

\* C26: whatever the calls before it, the acceleration _calculate_acceleration
\* appends is Accelerations.from_forces(forces[-1], atoms) of the program
\* state it is given.
C26_NoStaleResult ==
    OnCache("acceleration") =>
        handled.call.appended =
            Accelerations_from_forces(Last(handled.call.pre.forces), handled.call.pre.atoms)

\* C27 as stated: a second call for the same object with an unchanged number
\* of entries computes nothing and appends what the first call appended.
C27_CacheHit ==
    \A op \in {"acceleration", "velocity"} :
        SecondCall(op) => ~handled.call.computed /\ handled.call.appended = handled.call.first

\* C27: a second call for the same object with an unchanged number of
\* entries, when no cleanup has emptied the cache since the first call,
\* computes nothing and appends what the first call appended.
C27_CacheHitKept ==
    \A op \in {"acceleration", "velocity"} :
        SecondCall(op) /\ handled.call.kept =>
            ~handled.call.computed /\ handled.call.appended = handled.call.first
C27_Witness ==
    /\ SecondCall("acceleration")
    /\ handled.call.kept
    /\ handled.calls.from_forces = 1
    /\ handled.call.appended = handled.call.first
C27_VelocityReached ==
    /\ SecondCall("velocity")
    /\ handled.call.kept
    /\ handled.calls.from_acceleration = 1

(* ------- the integrators with a step size that orders against 0 -------- *)
\* With step_size an OrderedTime of positive duration the calls of C3, C5 and
\* C6 return normally and append what the equations give.
OrderedStepAppends ==
    (AfterStep /\ step_size.kind = "OrderedTime" /\ step_size.time > 0
        /\ last.pre.forces # <<>> /\ atoms # <<>>) =>
        /\ last.outcome = "ok"
        /\ Len(structures) = Len(last.pre.structures) + 1
        /\ propagation_algorithm = "VERLET" =>
                structures = Append(last.pre.structures, ClaimedVerlet(last.pre))
        /\ Len(accelerations) = Len(last.pre.accelerations) + 1
        /\ Len(velocities) = Len(last.pre.velocities)
                + (IF Len(last.pre.structures) >= 2 THEN 1 ELSE 0)
OrderedConstantForce ==
    (ConstantForceRun /\ step_size.kind = "OrderedTime") =>
        /\ Len(structures) = step_calls + 1
        /\ Last(structures)[1] = ClaimedPosition(step_calls)
OrderedConstantForceReached ==
    /\ ConstantForceRun
    /\ step_size.kind = "OrderedTime"
    /\ step_calls = MaxCalls
    /\ forces[1][1] # NoVec

(* ------- the sampler with fixed quanta inside the range of modes ------- *)
\* With every fixed_vibrational_quanta mode among the modes, the three input
\* failures of C14 end generate with InputError and the state as it was.
InRangeInputErrors ==
    (InSampler /\ run.pc # "generate" /\ run.boost.calls = 0
        /\ fixed_quanta_fit(run.frequencies, run.fixed_vibrational_quanta)
        /\ ~returns_triples(run.force_constants)
        /\ \/ run.boost.before < 0
           \/ /\ run.energy_boost = "ON"
              /\ run.energy_boost_max
                    < Energies_as_kcal_per_mole(Sum(calculate_zero_point_energies(run)))) =>
        /\ run.pc = "raised"
        /\ run.outcome = "InputError"
        /\ run.velocities = <<>>
        /\ run.structures = <<InputStructure(<<1, 2>>)>>
        /\ run.temperature = run.boost.before
InRangeInputErrorsReached ==
    /\ InSampler
    /\ run.pc = "raised"
    /\ run.frequencies # <<>>
    /\ run.temperature >= 0
    /\ run.outcome = "InputError"
    /\ run.random.draws # <<>>

====
